---- MODULE Spec2Model ----
(***************************************************************************)
(* Luxembourg-law-mcp: the citation engine (parseCitation, formatCitation, *)
(* validateCitation) and the provision deduplicator of the database build. *)
(*                                                                         *)
(* A JavaScript string is a sequence of one-character strings.  An         *)
(* optional value (undefined or a value) is a sequence of length at most   *)
(* one: None is <<>>, Some(v) is <<v>>, so that the empty string and       *)
(* undefined stay different values.                                        *)
(***************************************************************************)
EXTENDS Naturals, Sequences, FiniteSets, TLC

VARIABLES
    pc,          \* position of the run within its specification
    citation,    \* the citation string handed to the citation engine
    parsed,      \* ParsedCitation returned by parseCitation
    formatted,   \* strings returned by formatCitation, per style
    db,          \* the store: legal_documents and legal_provisions rows
    result,      \* ValidationResult returned by validateCitation
    provisions,  \* the provision list handed to dedupeProvisions
    dedup,       \* result of dedupeProvisions on provisions
    dedup2,      \* result of dedupeProvisions on its own output
    flags,       \* command line of the ingestion run: --force, --skip-discovery, --limit, --ids
    endpoint,    \* rows the SPARQL endpoint holds, per document type
    files,       \* data/source/law-index.json and the data/seed artifacts
    disc,        \* loop state of discoverLaws
    phase2,      \* loop state and counters of fetchAndParseLaws
    net,         \* the clock, lastRequestTime and the requests issued so far
    seedFiles    \* the seed files read by the database build

vars == <<pc, citation, parsed, formatted, db, result, provisions, dedup, dedup2,
          flags, endpoint, files, disc, phase2, net, seedFiles>>

\* the variables of the citation engine and of the deduplicator
engineVars == <<citation, parsed, formatted, result, provisions, dedup, dedup2>>
\* the variables of the ingestion pipeline
ingestVars == <<flags, endpoint, files, disc, phase2, net>>

None == <<>>
Some(v) == <<v>>
IsSome(o) == Len(o) = 1
Val(o) == o[1]

(***************************************************************************)
(* Characters and character classes of the regular expressions.            *)
(***************************************************************************)
UpperChars ==
    <<"A","B","C","D","E","F","G","H","I","J","K","L","M",
      "N","O","P","Q","R","S","T","U","V","W","X","Y","Z","È","É","Ê">>
LowerChars ==
    <<"a","b","c","d","e","f","g","h","i","j","k","l","m",
      "n","o","p","q","r","s","t","u","v","w","x","y","z","è","é","ê">>
DigitChars == <<"0","1","2","3","4","5","6","7","8","9">>

AsciiUpper == {UpperChars[i] : i \in 1..26}
AsciiLower == {LowerChars[i] : i \in 1..26}
Digits == {DigitChars[i] : i \in 1..10}

\* String.prototype.toLowerCase on one character
LowerChar(c) ==
    IF \E i \in 1..Len(UpperChars) : UpperChars[i] = c
    THEN LowerChars[CHOOSE i \in 1..Len(UpperChars) : UpperChars[i] = c]
    ELSE c

\* String.prototype.toUpperCase on one character
UpperChar(c) ==
    IF \E i \in 1..Len(LowerChars) : LowerChars[i] = c
    THEN UpperChars[CHOOSE i \in 1..Len(LowerChars) : LowerChars[i] = c]
    ELSE c

\* SQLite lower(): ASCII letters only
SqlLowerChar(c) == IF c \in AsciiUpper THEN LowerChar(c) ELSE c

ToLower(s) == [i \in 1..Len(s) |-> LowerChar(s[i])]
ToUpper(s) == [i \in 1..Len(s) |-> UpperChar(s[i])]
SqlLower(s) == [i \in 1..Len(s) |-> SqlLowerChar(s[i])]

IsSpace(c) == c \in {" ", "\t", "\n"}            \* \s
IsDigit(c) == c \in Digits                        \* \d
IsWordChar(c) == c \in AsciiUpper \cup AsciiLower \cup Digits \cup {"_"}   \* \w
IsLineEnd(c) == c = "\n"                          \* what . does not match
\* [a-z0-9().\-] under the i flag
IsArticleChar(c) == c \in AsciiUpper \cup AsciiLower \cup Digits \cup {"(", ")", ".", "-"}

\* s[from..] (empty when from is past the end)
Drop(s, from) == SubSeq(s, from, Len(s))

\* length of the maximal run of characters satisfying a class, from position p
RECURSIVE SpaceRun(_, _)
SpaceRun(s, p) == IF p <= Len(s) /\ IsSpace(s[p]) THEN 1 + SpaceRun(s, p + 1) ELSE 0
RECURSIVE DigitRun(_, _)
DigitRun(s, p) == IF p <= Len(s) /\ IsDigit(s[p]) THEN 1 + DigitRun(s, p + 1) ELSE 0

\* String.prototype.trim
Trim(s) ==
    IF \A i \in 1..Len(s) : IsSpace(s[i]) THEN <<>>
    ELSE LET first == CHOOSE i \in 1..Len(s) :
                        ~IsSpace(s[i]) /\ \A j \in 1..(i - 1) : IsSpace(s[j])
             last == CHOOSE i \in 1..Len(s) :
                        ~IsSpace(s[i]) /\ \A j \in (i + 1)..Len(s) : IsSpace(s[j])
         IN SubSeq(s, first, last)

\* the literal lit occurs in s at position p; ci: compared case-insensitively
LitAt(s, p, lit, ci) ==
    /\ p + Len(lit) - 1 <= Len(s)
    /\ \A k \in 1..Len(lit) :
          IF ci THEN UpperChar(s[p + k - 1]) = UpperChar(lit[k])
                ELSE s[p + k - 1] = lit[k]

\* parseInt(digits, 10) and String(n)
DigitVal(c) == (CHOOSE i \in 1..10 : DigitChars[i] = c) - 1
RECURSIVE ParseInt(_)
ParseInt(s) ==
    IF Len(s) = 0 THEN 0
    ELSE 10 * ParseInt(SubSeq(s, 1, Len(s) - 1)) + DigitVal(s[Len(s)])
RECURSIVE NumToStr(_)
NumToStr(n) ==
    IF n < 10 THEN <<DigitChars[n + 1]>>
    ELSE Append(NumToStr(n \div 10), DigitChars[(n % 10) + 1])

(***************************************************************************)
(* parseCitation (src/src/citation/parser.ts)                              *)
(***************************************************************************)
sArt == <<"a","r","t">>
sIcle == <<"i","c","l","e">>
sArticle == sArt \o sIcle
sSection == <<"S","e","c","t","i","o","n">>

\* SECTION_REF = /^(\d+)(?:\((\d+)\))?(?:\(([a-z])\))?$/ : groups 1..3, or
\* ok = FALSE.  Every quantifier is followed by a character outside its
\* class, so the match is unique.
SECTION_REF(s) ==
    LET d == DigitRun(s, 1)
        p == d + 1
        sub == IF p <= Len(s) /\ s[p] = "(" /\ DigitRun(s, p + 1) > 0
                  /\ LitAt(s, p + 1 + DigitRun(s, p + 1), <<")">>, FALSE)
               THEN DigitRun(s, p + 1) ELSE 0
        q == IF sub > 0 THEN p + sub + 2 ELSE p
        par == q + 2 <= Len(s) /\ s[q] = "(" /\ s[q + 1] \in AsciiLower /\ s[q + 2] = ")"
        e == IF par THEN q + 3 ELSE q
    IN IF d > 0 /\ e = Len(s) + 1
       THEN [ok |-> TRUE,
             g1 |-> SubSeq(s, 1, d),
             g2 |-> IF sub > 0 THEN Some(SubSeq(s, p + 1, p + sub)) ELSE None,
             g3 |-> IF par THEN Some(<<s[q + 1]>>) ELSE None]
       ELSE [ok |-> FALSE, g1 |-> <<>>, g2 |-> None, g3 |-> None]

\* sectionStr.replace(/^art(?:icle)?\.?\s*/i, '')
StripArtPrefix(s) ==
    IF ~LitAt(s, 1, sArt, TRUE) THEN s
    ELSE LET a == IF LitAt(s, 4, sIcle, TRUE) THEN 8 ELSE 4
             b == IF a <= Len(s) /\ s[a] = "." THEN a + 1 ELSE a
         IN Drop(s, b + SpaceRun(s, b))

\* ParsedCitation
Invalid(msg) ==
    [valid |-> FALSE, type |-> "unknown", title |-> None, year |-> None,
     section |-> None, subsection |-> None, paragraph |-> None, error |-> Some(msg)]

parseArticle(sectionStr, title, year) ==
    LET normalizedSection == Trim(StripArtPrefix(sectionStr))
        sectionMatch == SECTION_REF(normalizedSection)
    IN IF ~sectionMatch.ok
       THEN [valid |-> TRUE, type |-> "statute", title |-> Some(Trim(title)), year |-> year,
             section |-> Some(normalizedSection), subsection |-> None,
             paragraph |-> None, error |-> None]
       ELSE [valid |-> TRUE, type |-> "statute", title |-> Some(Trim(title)), year |-> year,
             section |-> Some(sectionMatch.g1), subsection |-> sectionMatch.g2,
             paragraph |-> sectionMatch.g3, error |-> None]

\* (?:article|art\.?)\s*(?<article>[a-z0-9().\-]+)$ at position p: the start
\* of the article group, 0 when there is no match.  The alternatives are
\* tried in the regex's order: "article", "art.", "art".
ArticleTail(s, p) ==
    LET rest(a) == LET b == a + SpaceRun(s, a)
                   IN IF b <= Len(s) /\ \A k \in b..Len(s) : IsArticleChar(s[k])
                      THEN b ELSE 0
        viaArticle == IF LitAt(s, p, sArticle, TRUE) THEN rest(p + 7) ELSE 0
        viaArtDot == IF LitAt(s, p, sArt \o <<".">>, TRUE) THEN rest(p + 4) ELSE 0
        viaArt == IF LitAt(s, p, sArt, TRUE) THEN rest(p + 3) ELSE 0
    IN IF viaArticle > 0 THEN viaArticle
       ELSE IF viaArtDot > 0 THEN viaArtDot
       ELSE viaArt

\* (?:,\s*|\s+) after a title of length t: the position after the separator,
\* 0 when neither alternative matches.  A separator shorter than the whole
\* run leaves white space where the article marker has to start.
SeparatorEnd(s, t) ==
    IF t + 1 > Len(s) THEN 0
    ELSE IF s[t + 1] = "," THEN t + 2 + SpaceRun(s, t + 2)
    ELSE IF IsSpace(s[t + 1]) THEN t + 1 + SpaceRun(s, t + 1)
    ELSE 0

\* LUXEMBOURG_ARTICLE =
\*   /^(?<title>.+?)(?:,\s*|\s+)(?:article|art\.?)\s*(?<article>[a-z0-9().\-]+)$/i
\* the lazy title takes the shortest prefix after which the rest matches
LuxSplit(s, t) ==
    /\ \A k \in 1..t : ~IsLineEnd(s[k])
    /\ SeparatorEnd(s, t) > 0
    /\ ArticleTail(s, SeparatorEnd(s, t)) > 0

LUXEMBOURG_ARTICLE(s) ==
    IF \E t \in 1..Len(s) : LuxSplit(s, t)
    THEN LET t == CHOOSE u \in 1..Len(s) :
                    LuxSplit(s, u) /\ \A v \in 1..(u - 1) : ~LuxSplit(s, v)
         IN [ok |-> TRUE, title |-> SubSeq(s, 1, t),
             article |-> Drop(s, ArticleTail(s, SeparatorEnd(s, t)))]
    ELSE [ok |-> FALSE, title |-> <<>>, article |-> <<>>]

\* title.match(/\b(\d{4})\b/): the first run of exactly four digits between
\* word boundaries, parsed as a number
YearAt(s, i) ==
    /\ i + 3 <= Len(s)
    /\ \A k \in i..(i + 3) : IsDigit(s[k])
    /\ (i = 1 \/ ~IsWordChar(s[i - 1]))
    /\ (i + 4 > Len(s) \/ ~IsWordChar(s[i + 4]))

YearOf(title) ==
    IF \E i \in 1..Len(title) : YearAt(title, i)
    THEN LET i == CHOOSE j \in 1..Len(title) :
                    YearAt(title, j) /\ \A k \in 1..(j - 1) : ~YearAt(title, k)
         IN Some(ParseInt(SubSeq(title, i, i + 3)))
    ELSE None

\* \d+(?:\(\d+\))*(?:\([a-z]\))* at position p: the position after the match,
\* 0 when there is no match.  Each quantifier takes all it can: what follows
\* the group in both patterns is white space or a comma, which none of the
\* group's parts can start with.
RECURSIVE ParenDigitsEnd(_, _)
ParenDigitsEnd(s, p) ==
    IF p <= Len(s) /\ s[p] = "(" /\ DigitRun(s, p + 1) > 0
       /\ LitAt(s, p + 1 + DigitRun(s, p + 1), <<")">>, FALSE)
    THEN ParenDigitsEnd(s, p + DigitRun(s, p + 1) + 2)
    ELSE p
RECURSIVE ParenLettersEnd(_, _, _)
ParenLettersEnd(s, p, ci) ==
    IF p + 2 <= Len(s) /\ s[p] = "("
       /\ (IF ci THEN LowerChar(s[p + 1]) \in AsciiLower ELSE s[p + 1] \in AsciiLower)
       /\ s[p + 2] = ")"
    THEN ParenLettersEnd(s, p + 3, ci)
    ELSE p
SectionGroupEnd(s, p, ci) ==
    IF DigitRun(s, p) = 0 THEN 0
    ELSE ParenLettersEnd(s, ParenDigitsEnd(s, p + DigitRun(s, p)), ci)

\* \s+(\d{4})$ at position p
YearTail(s, p) ==
    /\ p <= Len(s) - 4
    /\ \A k \in p..(Len(s) - 4) : IsSpace(s[k])
    /\ \A k \in (Len(s) - 3)..Len(s) : IsDigit(s[k])

\* (.+?)\s+(\d{4})$ at position ts: the length of the lazy title, 0 if none
LazyTitleLen(s, ts) ==
    LET fits(tl) == /\ \A k \in ts..(ts + tl - 1) : ~IsLineEnd(s[k])
                    /\ YearTail(s, ts + tl)
    IN IF \E tl \in 1..(Len(s) - ts) : fits(tl)
       THEN CHOOSE tl \in 1..(Len(s) - ts) : fits(tl) /\ \A u \in 1..(tl - 1) : ~fits(u)
       ELSE 0

\* FULL_CITATION =
\*   /^(?:Section|s\.?)\s+(\d+(?:\(\d+\))*(?:\([a-z]\))*)\s*,?\s+(.+?)\s+(\d{4})$/i
\* The separator \s*,?\s+ is tried in backtracking order: <<a, c, b>> are the
\* lengths taken by \s*, ,? and \s+, each as long as possible first.
FULL_CITATION(s) ==
    LET pre == IF LitAt(s, 1, sSection, TRUE) THEN 8
               ELSE IF LitAt(s, 1, <<"s", ".">>, TRUE) THEN 3
               ELSE IF LitAt(s, 1, <<"s">>, TRUE) THEN 2
               ELSE 0
        p == pre + SpaceRun(s, pre)
        q == IF pre > 0 /\ SpaceRun(s, pre) > 0 THEN SectionGroupEnd(s, p, TRUE) ELSE 0
        seps == {x \in (0..SpaceRun(s, q)) \X (0..1) \X (1..Len(s)) :
                    /\ x[2] = 1 => LitAt(s, q + x[1], <<",">>, FALSE)
                    /\ x[3] <= SpaceRun(s, q + x[1] + x[2])
                    /\ LazyTitleLen(s, q + x[1] + x[2] + x[3]) > 0}
        before(x, y) == \/ x[1] > y[1]
                        \/ x[1] = y[1] /\ x[2] > y[2]
                        \/ x[1] = y[1] /\ x[2] = y[2] /\ x[3] > y[3]
    IN IF q > 0 /\ seps # {}
       THEN LET x == CHOOSE y \in seps : \A z \in seps \ {y} : before(y, z)
                ts == q + x[1] + x[2] + x[3]
            IN [ok |-> TRUE, g1 |-> SubSeq(s, p, q - 1),
                g2 |-> SubSeq(s, ts, ts + LazyTitleLen(s, ts) - 1),
                g3 |-> Drop(s, Len(s) - 3)]
       ELSE [ok |-> FALSE, g1 |-> <<>>, g2 |-> <<>>, g3 |-> <<>>]

\* SHORT_CITATION =
\*   /^s\.?\s+(\d+(?:\(\d+\))*(?:\([a-z]\))*)\s+([A-Z][A-Z0-9&\s]*?)\s+(\d{4})$/
\* (no i flag).  The title starts with a capital, so \s+ takes the whole run.
SHORT_CITATION(s) ==
    LET pre == IF LitAt(s, 1, <<"s", ".">>, FALSE) THEN 3
               ELSE IF LitAt(s, 1, <<"s">>, FALSE) THEN 2
               ELSE 0
        p == pre + SpaceRun(s, pre)
        q == IF pre > 0 /\ SpaceRun(s, pre) > 0 THEN SectionGroupEnd(s, p, FALSE) ELSE 0
        ts == q + SpaceRun(s, q)
        fits(tl) == /\ s[ts] \in AsciiUpper
                    /\ \A k \in (ts + 1)..(ts + tl - 1) :
                          s[k] \in AsciiUpper \cup Digits \cup {"&"} \/ IsSpace(s[k])
                    /\ YearTail(s, ts + tl)
        lens == {tl \in 1..(Len(s) - ts) : fits(tl)}
    IN IF q > 0 /\ SpaceRun(s, q) > 0 /\ lens # {}
       THEN LET tl == CHOOSE u \in lens : \A v \in lens : u <= v
            IN [ok |-> TRUE, g1 |-> SubSeq(s, p, q - 1),
                g2 |-> SubSeq(s, ts, ts + tl - 1), g3 |-> Drop(s, Len(s) - 3)]
       ELSE [ok |-> FALSE, g1 |-> <<>>, g2 |-> <<>>, g3 |-> <<>>]

\* the text of the error of an unparseable citation
sCouldNotParse == <<"C","o","u","l","d"," ","n","o","t"," ","p","a","r","s","e"," ",
                    "l","e","g","a","l"," ","c","i","t","a","t","i","o","n",":"," ","\"">>

parseCitation(c) ==
    LET trimmed == Trim(c)
        luxMatch == LUXEMBOURG_ARTICLE(trimmed)
        title == Trim(luxMatch.title)
        article == Trim(luxMatch.article)
        full == FULL_CITATION(trimmed)
        short == SHORT_CITATION(trimmed)
    IN IF luxMatch.ok /\ title # <<>> /\ article # <<>>
       THEN parseArticle(article, title, YearOf(title))
       ELSE IF full.ok THEN parseArticle(full.g1, full.g2, Some(ParseInt(full.g3)))
       ELSE IF short.ok THEN parseArticle(short.g1, short.g2, Some(ParseInt(short.g3)))
       ELSE Invalid(sCouldNotParse \o trimmed \o <<"\"">>)

(***************************************************************************)
(* formatCitation (src/unnamed/part_006)                                   *)
(***************************************************************************)
sArtDotSp == <<"a","r","t","."," ">>
sSectionSp == <<"S","e","c","t","i","o","n"," ">>

\* a JavaScript string in a condition: undefined and "" are falsy
Truthy(o) == IsSome(o) /\ Val(o) # <<>>
\* parsed.year in a condition: undefined and 0 are falsy
TruthyNum(o) == IsSome(o) /\ Val(o) # 0

buildPinpoint(p) ==
    LET ref0 == IF IsSome(p.section) THEN Val(p.section) ELSE <<>>
        ref1 == IF Truthy(p.subsection)
                THEN ref0 \o <<"(">> \o Val(p.subsection) \o <<")">> ELSE ref0
    IN IF Truthy(p.paragraph)
       THEN ref1 \o <<"(">> \o Val(p.paragraph) \o <<")">> ELSE ref1

\* /^(loi|règlement|reglement|arr[eê]t[eé])/i.test(title)
LuxembourgTitle(t) ==
    \/ LitAt(t, 1, <<"l","o","i">>, TRUE)
    \/ LitAt(t, 1, <<"r","è","g","l","e","m","e","n","t">>, TRUE)
    \/ LitAt(t, 1, <<"r","e","g","l","e","m","e","n","t">>, TRUE)
    \/ /\ LitAt(t, 1, <<"a","r","r">>, TRUE)
       /\ Len(t) >= 6
       /\ UpperChar(t[4]) \in {"E", "Ê"}
       /\ UpperChar(t[5]) = "T"
       /\ UpperChar(t[6]) \in {"E", "É"}

formatCitation(p, format) ==
    IF ~p.valid \/ ~Truthy(p.section) THEN <<>>
    ELSE LET pinpoint == buildPinpoint(p)
             title == IF IsSome(p.title) THEN Some(Trim(Val(p.title))) ELSE None
             titleStr == IF IsSome(title) THEN Val(title) ELSE <<>>
             year == IF TruthyNum(p.year) THEN NumToStr(Val(p.year)) ELSE <<>>
             luxembourgStyle == Truthy(title) /\ LuxembourgTitle(Val(title))
             full == IF luxembourgStyle
                     THEN Trim(titleStr \o <<",", " ">> \o sArtDotSp \o pinpoint)
                     ELSE Trim(sSectionSp \o pinpoint \o <<",", " ">> \o titleStr
                               \o <<" ">> \o year)
         IN CASE format = "full" -> full
              [] format = "short" ->
                    Trim(sArtDotSp \o pinpoint \o <<" ">> \o titleStr \o <<" ">> \o year)
              [] format = "pinpoint" -> sArtDotSp \o pinpoint
              [] OTHER -> full

(***************************************************************************)
(* validateCitation (src/src/citation/parser.ts, the validator part)       *)
(***************************************************************************)
RomanDigit(c) ==
    CASE c = "I" -> 1 [] c = "V" -> 5 [] c = "X" -> 10 [] c = "L" -> 50
      [] c = "C" -> 100 [] c = "D" -> 500 [] c = "M" -> 1000

IsRomanLike(s) == Len(s) > 0 /\ \A i \in 1..Len(s) : UpperChar(s[i]) \in {"I","V","X","L","C","D","M"}

\* RomanTerm without the subtractive rule: every letter is added
RomanTermNoSubtract(n, i) == [neg |-> FALSE, v |-> RomanDigit(n[i])]

\* the signed contribution of the letter at position i
RomanTerm(n, i) ==
    LET current == RomanDigit(n[i])
        hasNext == i < Len(n)
    IN IF hasNext /\ current < RomanDigit(n[i + 1]) THEN [neg |-> TRUE, v |-> current]
       ELSE [neg |-> FALSE, v |-> current]

\* the loop of romanToNumber: the sum of the terms of positions 1..i kept as
\* the pair of the added and the subtracted amounts
RECURSIVE RomanSum(_, _)
RomanSum(n, i) ==
    IF i = 0 THEN [plus |-> 0, minus |-> 0]
    ELSE LET r == RomanSum(n, i - 1)
             t == RomanTerm(n, i)
         IN IF t.neg THEN [plus |-> r.plus, minus |-> r.minus + t.v]
            ELSE [plus |-> r.plus + t.v, minus |-> r.minus]

\* romanToNumber: None is null.  A total below zero does not arise: the last
\* letter is always added and is larger than a letter subtracted before it.
romanToNumber(value) ==
    LET normalized == ToUpper(value)
    IN IF ~IsRomanLike(normalized) THEN None
       ELSE LET r == RomanSum(normalized, Len(normalized))
            IN Some(r.plus - r.minus)

\* s.replace(/\s+/g, '') and s.replace(/\./g, '')
RemoveSpaces(s) == SelectSeq(s, LAMBDA c : ~IsSpace(c))
RemoveDots(s) == SelectSeq(s, LAMBDA c : c # ".")
IsTrailingPunct(c) == c \in {".", ",", ";", ":", "!", "?"}

\* s.replace(/[.,;:!?]+$/g, '')
RECURSIVE StripTrailingPunct(_)
StripTrailingPunct(s) ==
    IF Len(s) > 0 /\ IsTrailingPunct(s[Len(s)])
    THEN StripTrailingPunct(SubSeq(s, 1, Len(s) - 1))
    ELSE s

\* s.replace(/er$/i, '')
StripEr(s) ==
    IF Len(s) >= 2 /\ LitAt(s, Len(s) - 1, <<"e","r">>, TRUE)
    THEN SubSeq(s, 1, Len(s) - 2) ELSE s

\* Set.add on the insertion-ordered candidate set
AddCandidate(seq, c) == IF \E i \in 1..Len(seq) : seq[i] = c THEN seq ELSE Append(seq, c)

\* candidates.add(token); candidates.add(`art${token}`)
AddPair(seq, token) == AddCandidate(AddCandidate(seq, token), sArt \o token)

\* if (romanNumber != null) { .. }
AddRoman(seq, romanNumber) ==
    IF IsSome(romanNumber) THEN AddPair(seq, NumToStr(Val(romanNumber))) ELSE seq

\* const numeric = normalized.match(/^\d+/)?.[0]; if (numeric) { .. }
AddNumeric(seq, numeric) == IF numeric # <<>> THEN AddPair(seq, numeric) ELSE seq

\* the candidates of the token left after the trailing punctuation is removed
CandidatesOfNormalized(normalized) ==
    AddNumeric(AddRoman(AddPair(<<>>, normalized),
                        romanToNumber(StripEr(RemoveDots(normalized)))),
               SubSeq(normalized, 1, DigitRun(normalized, 1)))

\* if (!cleaned) return []
CandidatesOfCleaned(cleaned) ==
    IF cleaned = <<>> THEN <<>> ELSE CandidatesOfNormalized(StripTrailingPunct(cleaned))

provisionCandidates(section) ==
    IF ~Truthy(section) THEN <<>>
    ELSE CandidatesOfCleaned(RemoveSpaces(StripArtPrefix(ToLower(Trim(Val(section))))))

\* SQLite's LIKE: % any run, _ any one character, ASCII letters compared
\* without case
RECURSIVE LikeFrom(_, _, _, _)
LikeFrom(s, i, p, j) ==
    IF j > Len(p) THEN i > Len(s)
    ELSE IF p[j] = "%" THEN \E k \in i..(Len(s) + 1) : LikeFrom(s, k, p, j + 1)
    ELSE /\ i <= Len(s)
         /\ (p[j] = "_" \/ SqlLowerChar(s[i]) = SqlLowerChar(p[j]))
         /\ LikeFrom(s, i + 1, p, j + 1)
Like(s, p) == LikeFrom(s, 1, p, 1)
\* a nullable column LIKE a pattern: NULL is not a match
LikeOpt(o, p) == IsSome(o) /\ Like(Val(o), p)

\* SELECT .. FROM legal_documents WHERE lower(title) LIKE lower(?)
\* The row LIMIT 1 returns is one that no other row precedes in the ORDER BY.
\*   ORDER BY CASE WHEN lower(title) = lower(?) THEN 0 ELSE 1 END, length(title) LIMIT 1
DocsByTitle(store, title) ==
    LET rows == {d \in store.documents :
                    Like(SqlLower(d.title), SqlLower(<<"%">> \o title \o <<"%">>))}
        rank(d) == IF SqlLower(d.title) = SqlLower(title) THEN 0 ELSE 1
        before(a, b) == \/ rank(a) < rank(b)
                        \/ rank(a) = rank(b) /\ Len(a.title) < Len(b.title)
    IN {r \in rows : \A q \in rows : ~before(q, r)}

\* WHERE issued_date LIKE ? OR title LIKE ?  with  'year%' and '%year%'
YearMatches(d, year) ==
    \/ LikeOpt(d.issued_date, NumToStr(year) \o <<"%">>)
    \/ Like(d.title, <<"%">> \o NumToStr(year) \o <<"%">>)

\* SELECT .. FROM legal_documents WHERE issued_date LIKE ? OR title LIKE ?
\*   ORDER BY length(title) LIMIT 1
DocsByYear(store, year) ==
    LET rows == {d \in store.documents : YearMatches(d, year)}
        before(a, b) == Len(a.title) < Len(b.title)
    IN {r \in rows : \A q \in rows : ~before(q, r)}

\* (lower(provision_ref) = ? OR lower(section) = ?) with candidate.toLowerCase()
ProvisionMatches(p, candidate) ==
    \/ SqlLower(p.provision_ref) = ToLower(candidate)
    \/ SqlLower(p.section) = ToLower(candidate)

\* the join lookup without its test on the year
DocsByJoinAnyYear(store, year, candidate) ==
    {d \in store.documents :
        \E p \in store.provisions : p.document_id = d.id /\ ProvisionMatches(p, candidate)}

\* SELECT ld.* FROM legal_documents ld JOIN legal_provisions lp ON lp.document_id = ld.id
\*   WHERE (ld.issued_date LIKE ? OR ld.title LIKE ?) AND (..) LIMIT 1
DocsByJoin(store, year, candidate) ==
    {d \in store.documents :
        /\ YearMatches(d, year)
        /\ \E p \in store.provisions : p.document_id = d.id /\ ProvisionMatches(p, candidate)}

\* the loop over the candidates: the rows of the first candidate that has any
RECURSIVE DocsByCandidates(_, _, _, _)
DocsByCandidates(store, year, cands, i) ==
    IF i > Len(cands) THEN {}
    ELSE IF DocsByJoin(store, year, cands[i]) # {} THEN DocsByJoin(store, year, cands[i])
    ELSE DocsByCandidates(store, year, cands, i + 1)

\* if (!doc && parsed.section && parsed.year) { for (const candidate of ..) .. }
ResolveAfterYear(store, p, byYear) ==
    IF byYear # {} THEN byYear
    ELSE IF Truthy(p.section) /\ TruthyNum(p.year)
    THEN DocsByCandidates(store, Val(p.year), provisionCandidates(p.section), 1)
    ELSE {}

\* if (!doc && parsed.year) { doc = .. }
ResolveAfterTitle(store, p, byTitle) ==
    IF byTitle # {} THEN byTitle
    ELSE ResolveAfterYear(store, p,
             IF TruthyNum(p.year) THEN DocsByYear(store, Val(p.year)) ELSE {})

\* the three lookups of validateCitation in their order: the rows doc may be
\* bound to, empty when no document resolves
ResolveDocs(store, p) ==
    ResolveAfterTitle(store, p,
        IF Truthy(p.title) THEN DocsByTitle(store, Val(p.title)) ELSE {})

\* SELECT 1 FROM legal_provisions WHERE document_id = ? AND (..) LIMIT 1, for
\* each candidate until one is found
ProvisionFound(store, doc, section) ==
    LET candidates == provisionCandidates(section)
    IN \E i \in 1..Len(candidates) :
          \E p \in store.provisions :
              p.document_id = doc.id /\ ProvisionMatches(p, candidates[i])

\* ValidationResult of a citation that does not parse
InvalidResult(p) ==
    [citation |-> p, document_exists |-> FALSE, provision_exists |-> FALSE,
     document_title |-> None, status |-> None,
     warnings |-> <<IF IsSome(p.error) THEN Val(p.error) ELSE <<"I","n","v","a","l","i","d"," ","c","i","t","a","t","i","o","n"," ","f","o","r","m","a","t">>>>]

\* NotFoundResult without its warning
NotFoundResultSilent(p) ==
    [citation |-> p, document_exists |-> FALSE, provision_exists |-> FALSE,
     document_title |-> None, status |-> None, warnings |-> <<>>]

\* ValidationResult when no document resolves
NotFoundResult(p) ==
    [citation |-> p, document_exists |-> FALSE, provision_exists |-> FALSE,
     document_title |-> None, status |-> None,
     warnings |-> <<Trim(<<"D","o","c","u","m","e","n","t"," ","\"">> \o (IF IsSome(p.title) THEN Val(p.title) ELSE <<"u","n","k","n","o","w","n">>)
                        \o <<" ">> \o (IF IsSome(p.year) THEN NumToStr(Val(p.year)) ELSE <<>>)
                        \o <<"\""," ","n","o","t"," ","f","o","u","n","d"," ","i","n"," ","d","a","t","a","b","a","s","e">>)>>]

\* ValidationResult for the resolved row doc, given the outcome of the
\* provision lookup
FoundResultWith(p, doc, provisionExists) ==
    [citation |-> p, document_exists |-> TRUE, provision_exists |-> provisionExists,
     document_title |-> Some(doc.title), status |-> Some(doc.status),
     warnings |->
        (IF doc.status = "repealed"
         THEN <<<<"T","h","i","s"," ","s","t","a","t","u","t","e"," ","h","a","s"," ","b","e","e","n"," ","r","e","p","e","a","l","e","d">>>> ELSE <<>>)
        \o (IF Truthy(p.section) /\ ~provisionExists
            THEN <<<<"A","r","t","i","c","l","e","/","s","e","c","t","i","o","n"," ">> \o Val(p.section) \o <<" ","n","o","t"," ","f","o","u","n","d"," ","i","n"," ">>
                   \o doc.title>>
            ELSE <<>>)]

\* ValidationResult for the resolved row doc
FoundResult(store, p, doc) ==
    FoundResultWith(p, doc, Truthy(p.section) /\ ProvisionFound(store, doc, p.section))

\* the results for the rows the lookups may bind doc to
ResultsFor(store, p, docs) ==
    IF docs = {} THEN {NotFoundResult(p)}
    ELSE {FoundResult(store, p, doc) : doc \in docs}

\* the part of validateCitation after the citation is parsed
ValidateParsed(store, p) ==
    IF ~p.valid THEN {InvalidResult(p)}
    ELSE ResultsFor(store, p, ResolveDocs(store, p))

\* validateCitation(db, citation): the results it may return (one per row the
\* LIMIT 1 lookups may pick)
validateCitation(store, c) == ValidateParsed(store, parseCitation(c))

(***************************************************************************)
(* Inputs of the citation engine.                                          *)
(***************************************************************************)
\* largest number of pieces a generated title and article token have together
MaxParts == 3
\* largest number of legal_provisions rows of a generated store
MaxRows == 2
\* largest value of a generated Roman numeral
MaxRoman == 1200

RECURSIVE Concat(_)
Concat(ss) == IF Len(ss) = 0 THEN <<>> ELSE ss[1] \o Concat(Tail(ss))

\* the strings made of exactly k pieces
PieceStrings(pieces, k) == {Concat(f) : f \in [1..k -> pieces]}

TitlePieces == {<<"L","o","i">>, <<" ","1","7","9","9">>, <<" ","a","r","t">>, <<"A","c","t">>}
RefPieces == {<<"3">>, <<"I">>, <<".","e","r">>, <<"(","1",")">>, <<"(","a",")">>, <<"a","r","t">>, <<".">>}
Links == {<<","," ","a","r","t","."," ">>, <<" ","a","r","t","."," ">>, <<" ","a","r","t","i","c","l","e"," ">>, <<","," ","A","r","t",".">>, <<" ","a","r","t"," ">>, <<","," ">>, <<>>}

\* <title><link><article token>, well formed or not
LuxembourgInputs ==
    UNION {{t \o l \o r : t \in PieceStrings(TitlePieces, ab[1]),
                          l \in Links,
                          r \in PieceStrings(RefPieces, ab[2])} :
           ab \in {x \in (0..MaxParts) \X (0..MaxParts) : x[1] + x[2] <= MaxParts}}
      \ {<<>>}

EnglishInputs ==
    {pre \o r \o sep \o t \o y :
        pre \in {<<"S","e","c","t","i","o","n"," ">>, <<"s","."," ">>, <<"s"," ">>},
        r \in UNION {PieceStrings({<<"3">>, <<"(","1",")">>, <<"(","a",")">>}, k) : k \in 0..MaxParts},
        sep \in {<<","," ">>, <<" ">>},
        t \in {<<"D","a","t","a"," ","A","c","t">>, <<"D","P","A">>, <<"L","o","i">>},
        y \in {<<" ","2","0","1","8">>, <<" ","1","8">>, <<>>}}

CitationInputs == LuxembourgInputs \cup EnglishInputs

Styles == {"full", "short", "pinpoint"}

Idle == <<>>

\* the ingestion pipeline and the database build have not been started
IngestIdle ==
    /\ flags = Idle
    /\ endpoint = Idle
    /\ files = Idle
    /\ disc = Idle
    /\ phase2 = Idle
    /\ net = Idle
    /\ seedFiles = Idle

(***************************************************************************)
(* The citation tools: parse a citation, then format the parsed citation.  *)
(***************************************************************************)
Init ==
    /\ pc = "input"
    /\ citation \in CitationInputs
    /\ parsed = Idle
    /\ formatted = Idle
    /\ db = Idle
    /\ result = Idle
    /\ provisions = Idle
    /\ dedup = Idle
    /\ dedup2 = Idle
    /\ IngestIdle

Parse ==
    /\ pc = "input"
    /\ parsed' = parseCitation(citation)
    /\ pc' = "parsed"
    /\ UNCHANGED <<citation, formatted, db, result, provisions, dedup, dedup2>>
    /\ UNCHANGED <<ingestVars, seedFiles>>

Format ==
    /\ pc = "parsed"
    /\ \E style \in Styles :
          formatted' = [style |-> style, text |-> formatCitation(parsed, style)]
    /\ pc' = "formatted"
    /\ UNCHANGED <<citation, parsed, db, result, provisions, dedup, dedup2>>
    /\ UNCHANGED <<ingestVars, seedFiles>>

Next == Parse \/ Format

Spec == Init /\ [][Next]_vars

(***************************************************************************)
(* Properties of parseCitation and formatCitation.                         *)
(***************************************************************************)
\* C1: every result of parseCitation is exactly one of: valid with a
\* non-empty section, or not valid with a non-empty error message.
C1_ParseOutcome ==
    pc \in {"parsed", "formatted"} =>
        ((parsed.valid /\ Truthy(parsed.section))
            # (~parsed.valid /\ Truthy(parsed.error)))

\* x is <title>, art. <ref> with a title beginning with loi, règlement or
\* arrêté and ref a non-empty article token
CanonicalFull(x, t, r) ==
    /\ x = t \o <<","," ","a","r","t","."," ">> \o r
    /\ LuxembourgTitle(t)
    /\ t = Trim(t)
    /\ r # <<>>
    /\ \A i \in 1..Len(r) : IsArticleChar(r[i])

\* C2: a citation in canonical full form is reproduced exactly by parsing it
\* and formatting the result in the full style, and the pinpoint style gives
\* "art. " followed by the article token.
C2_RoundTrip ==
    pc = "formatted" =>
        \A k \in 1..Len(citation) :
            CanonicalFull(citation, SubSeq(citation, 1, k), Drop(citation, k + 8)) =>
                /\ formatted.style = "full" => formatted.text = citation
                /\ formatted.style = "pinpoint" =>
                      formatted.text = <<"a","r","t","."," ">> \o Drop(citation, k + 8)

(***************************************************************************)
(* The citation validator over a populated store.                          *)
(***************************************************************************)
\* legal_documents rows (id, title, status, issued_date)
DocA == [id |-> <<"d","A">>, title |-> <<"L","o","i"," ","1","7","9","9">>, status |-> "in_force",
         issued_date |-> Some(<<"1","7","9","9","-","0","4","-","1","1">>)]
DocB == [id |-> <<"d","B">>, title |-> <<"L","o","i"," ","1","7","9","9"," ","b">>, status |-> "repealed",
         issued_date |-> None]
DocC == [id |-> <<"d","C">>, title |-> <<"A","c","t","e">>, status |-> "in_force",
         issued_date |-> Some(<<"1","8","0","0","-","0","1","-","0","1">>)]
DocRows == {DocA, DocB, DocC}

\* legal_provisions rows (document_id, provision_ref, section)
ProvisionRows ==
    [document_id : {d.id : d \in DocRows},
     provision_ref : {<<"a","r","t","1">>, <<"a","r","t","3">>},
     section : {<<"1">>, <<"2">>}]

\* the schema's constraints: REFERENCES legal_documents(id) and
\* UNIQUE(document_id, provision_ref)
StoreOk(store) ==
    /\ \A p \in store.provisions : \E d \in store.documents : d.id = p.document_id
    /\ \A p, q \in store.provisions :
          (p.document_id = q.document_id /\ p.provision_ref = q.provision_ref) => p = q

Stores ==
    {store \in [documents : SUBSET DocRows,
                provisions : {ps \in SUBSET ProvisionRows : Cardinality(ps) <= MaxRows}] :
        StoreOk(store)}

ValidatorInputs ==
    {t \o <<","," ","a","r","t","."," ">> \o r :
        t \in {<<"L","o","i"," ","1","7","9","9">>, <<"l","o","i"," ","1","7","9","9">>, <<"L","o","i"," ","1","8","0","0">>, <<"L","o","i"," ","X"," ","1","7","9","9">>, <<"L","o","i">>, <<"C","o","d","e">>},
        r \in {<<"I",".","e","r">>, <<"1">>, <<"3">>, <<"3","b","i","s">>, <<"I","I","I">>, <<"3","(","1",")","(","a",")">>, <<"Z","Z">>, <<"a","r","t">>}}
      \cup {<<"t","h","i","s","-","i","s","-","n","o","t","-","a","-","c","i","t","a","t","i","o","n">>}

ValidatorInit ==
    /\ pc = "query"
    /\ citation \in ValidatorInputs
    /\ db \in Stores
    /\ parsed = Idle
    /\ formatted = Idle
    /\ result = Idle
    /\ provisions = Idle
    /\ dedup = Idle
    /\ dedup2 = Idle
    /\ IngestIdle

Validate ==
    /\ pc = "query"
    /\ result' \in validateCitation(db, citation)
    /\ pc' = "validated"
    /\ UNCHANGED <<citation, parsed, formatted, db, provisions, dedup, dedup2>>
    /\ UNCHANGED <<ingestVars, seedFiles>>

NextValidator == Validate

SpecValidator == ValidatorInit /\ [][NextValidator]_vars

(***************************************************************************)
(* Citations by Roman article number.                                      *)
(***************************************************************************)
\* the numeral of n in standard subtractive notation
RomanTable ==
    <<[v |-> 1000, s |-> <<"M">>], [v |-> 900, s |-> <<"C","M">>], [v |-> 500, s |-> <<"D">>],
      [v |-> 400, s |-> <<"C","D">>], [v |-> 100, s |-> <<"C">>], [v |-> 90, s |-> <<"X","C">>],
      [v |-> 50, s |-> <<"L">>], [v |-> 40, s |-> <<"X","L">>], [v |-> 10, s |-> <<"X">>],
      [v |-> 9, s |-> <<"I","X">>], [v |-> 5, s |-> <<"V">>], [v |-> 4, s |-> <<"I","V">>],
      [v |-> 1, s |-> <<"I">>]>>
RECURSIVE RomanFrom(_, _)
RomanFrom(n, i) ==
    IF n = 0 THEN <<>>
    ELSE IF RomanTable[i].v <= n THEN RomanTable[i].s \o RomanFrom(n - RomanTable[i].v, i)
    ELSE RomanFrom(n, i + 1)
Roman(n) == RomanFrom(n, 1)

OrdinalSuffixes == {<<>>, <<".","e","r">>, <<"e","r">>}

\* one document holding one article, cited by a Roman numeral
RomanInit ==
    /\ pc = "query"
    /\ \E n \in 1..MaxRoman, suffix \in OrdinalSuffixes, stored \in 1..MaxRoman :
          /\ stored \in {n, (n % MaxRoman) + 1}
          /\ citation = <<"L","o","i"," ","1","7","9","9",","," ","a","r","t","."," ">> \o Roman(n) \o suffix
          /\ db = [documents |-> {DocA},
                   provisions |-> {[document_id |-> DocA.id,
                                    provision_ref |-> sArt \o NumToStr(stored),
                                    section |-> <<"1">>]}]
    /\ parsed = Idle
    /\ formatted = Idle
    /\ result = Idle
    /\ provisions = Idle
    /\ dedup = Idle
    /\ dedup2 = Idle
    /\ IngestIdle

SpecRoman == RomanInit /\ [][NextValidator]_vars

(***************************************************************************)
(* dedupeProvisions (src/scripts/build-db.ts)                              *)
(*                                                                         *)
(* A ProvisionSeed is [provision_ref, title, content] with an optional     *)
(* title; the fields the deduplicator only copies (chapter, section,       *)
(* metadata) are left out.                                                 *)
(***************************************************************************)
\* text.replace(/\s+/g, ' ').trim()
RECURSIVE CollapseSpaces(_)
CollapseSpaces(s) ==
    IF Len(s) = 0 THEN <<>>
    ELSE IF IsSpace(s[1]) THEN <<" ">> \o CollapseSpaces(Drop(s, 1 + SpaceRun(s, 1)))
    ELSE <<s[1]>> \o CollapseSpaces(Tail(s))
normalizeWhitespace(text) == Trim(CollapseSpaces(text))

\* a ?? b
Coalesce(a, b) == IF IsSome(a) THEN a ELSE b

\* pickPreferredProvision with >= for >: an incoming provision of equal length wins
pickPreferredLast(existing, incoming) ==
    IF Len(normalizeWhitespace(incoming.content)) >= Len(normalizeWhitespace(existing.content))
    THEN [incoming EXCEPT !.title = Coalesce(incoming.title, existing.title)]
    ELSE [existing EXCEPT !.title = Coalesce(existing.title, incoming.title)]

pickPreferredProvision(existing, incoming) ==
    LET existingContent == normalizeWhitespace(existing.content)
        incomingContent == normalizeWhitespace(incoming.content)
    IN IF Len(incomingContent) > Len(existingContent)
       THEN [incoming EXCEPT !.title = Coalesce(incoming.title, existing.title)]
       ELSE [existing EXCEPT !.title = Coalesce(existing.title, incoming.title)]

\* the Map byRef: a sequence of [key, value] in insertion order
MapHas(m, key) == \E i \in 1..Len(m) : m[i].key = key
MapGet(m, key) == m[CHOOSE i \in 1..Len(m) : m[i].key = key].value
\* MapSet as delete followed by set: a present key moves to the end
MapSetMoveToEnd(m, key, value) ==
    Append(SelectSeq(m, LAMBDA e : e.key # key), [key |-> key, value |-> value])

\* Map.prototype.set: a new key goes last, a present key keeps its place
MapSet(m, key, value) ==
    IF MapHas(m, key)
    THEN [i \in 1..Len(m) |-> IF m[i].key = key THEN [key |-> key, value |-> value] ELSE m[i]]
    ELSE Append(m, [key |-> key, value |-> value])

\* ConflictingContent comparing the lengths in place of the contents
ConflictingContentByLength(existing, incoming) ==
    Len(normalizeWhitespace(existing.content)) # Len(normalizeWhitespace(incoming.content))

\* existingContent !== incomingContent
ConflictingContent(existing, incoming) ==
    normalizeWhitespace(existing.content) # normalizeWhitespace(incoming.content)

\* one iteration of the loop of dedupeProvisions
DedupeStep(st, provision) ==
    LET ref == Trim(provision.provision_ref)
    IN IF ~MapHas(st.byRef, ref)
       THEN [st EXCEPT !.byRef = MapSet(@, ref, [provision EXCEPT !.provision_ref = ref])]
       ELSE LET existing == MapGet(st.byRef, ref)
            IN [byRef |-> MapSet(st.byRef, ref, pickPreferredProvision(existing, provision)),
                duplicate_refs |-> st.duplicate_refs + 1,
                conflicting_duplicates |->
                    IF ConflictingContent(existing, provision)
                    THEN st.conflicting_duplicates + 1 ELSE st.conflicting_duplicates]

RECURSIVE DedupeLoop(_, _)
DedupeLoop(list, n) ==
    IF n = 0 THEN [byRef |-> <<>>, duplicate_refs |-> 0, conflicting_duplicates |-> 0]
    ELSE DedupeStep(DedupeLoop(list, n - 1), list[n])

dedupeProvisions(list) ==
    LET st == DedupeLoop(list, Len(list))
    IN [deduped |-> [i \in 1..Len(st.byRef) |-> st.byRef[i].value],
        stats |-> [duplicate_refs |-> st.duplicate_refs,
                   conflicting_duplicates |-> st.conflicting_duplicates]]

(***************************************************************************)
(* Loading one seed document: deduplicate its provisions, insert them.     *)
(***************************************************************************)
\* largest number of provisions of a generated seed document
MaxProvisions == 3

SeedProvisions ==
    [provision_ref : {<<"a">>, <<"a"," ">>, <<"b">>},
     title : {None, Some(<<"t">>)},
     content : {<<"x","y">>, <<"x"," ","y">>, <<"x"," "," ","y">>, <<"y"," ","x">>}]

SeedLists == UNION {[1..n -> SeedProvisions] : n \in 0..MaxProvisions}

SeedDocId == <<"s","e","e","d">>

DedupeInit ==
    /\ pc = "seed"
    /\ provisions \in SeedLists
    /\ db = [documents |-> {}, provisions |-> <<>>]
    /\ dedup = Idle
    /\ dedup2 = Idle
    /\ citation = Idle
    /\ parsed = Idle
    /\ formatted = Idle
    /\ result = Idle
    /\ IngestIdle

Dedupe ==
    /\ pc = "seed"
    /\ dedup' = dedupeProvisions(provisions)
    /\ pc' = "deduped"
    /\ UNCHANGED <<citation, parsed, formatted, db, result, provisions, dedup2>>
    /\ UNCHANGED <<ingestVars, seedFiles>>

\* the deduplicator run on its own output
DedupeAgain ==
    /\ pc = "deduped"
    /\ dedup2' = dedupeProvisions(dedup.deduped)
    /\ pc' = "rerun"
    /\ UNCHANGED <<citation, parsed, formatted, db, result, provisions, dedup>>
    /\ UNCHANGED <<ingestVars, seedFiles>>

\* insertProvision.run for each deduped provision, in order: the rows
\* inserted up to the end of the loop or up to the insert that met
\* UNIQUE(document_id, provision_ref), and whether one did.  The loop runs
\* inside the loadAll transaction: a failed insert leaves no row.
RECURSIVE InsertRows(_, _, _)
InsertRows(rows, list, i) ==
    IF i > Len(list) THEN [rows |-> rows, failed |-> FALSE]
    ELSE IF \E k \in 1..Len(rows) : /\ rows[k].document_id = SeedDocId
                                    /\ rows[k].provision_ref = list[i].provision_ref
    THEN [rows |-> rows, failed |-> TRUE]
    ELSE InsertRows(Append(rows, [document_id |-> SeedDocId,
                                  provision_ref |-> list[i].provision_ref,
                                  title |-> list[i].title,
                                  content |-> list[i].content]), list, i + 1)

InsertProvisions ==
    /\ pc = "deduped"
    /\ LET r == InsertRows(<<>>, dedup.deduped, 1)
       IN /\ db' = [db EXCEPT !.provisions = IF r.failed THEN <<>> ELSE r.rows]
          /\ pc' = IF r.failed THEN "constraint_failed" ELSE "loaded"
    /\ UNCHANGED <<citation, parsed, formatted, result, provisions, dedup, dedup2>>
    /\ UNCHANGED <<ingestVars, seedFiles>>

NextDedupe == Dedupe \/ DedupeAgain \/ InsertProvisions

SpecDedupe == DedupeInit /\ [][NextDedupe]_vars

(***************************************************************************)
(* Properties of validateCitation.                                         *)
(***************************************************************************)
\* the value a numeral in standard subtractive notation stands for: the
\* symbols of RomanTable read off from the left, largest first
RECURSIVE StandardValue(_, _)
StandardValue(s, i) ==
    IF Len(s) = 0 \/ i > Len(RomanTable) THEN 0
    ELSE IF LitAt(s, 1, RomanTable[i].s, FALSE)
    THEN RomanTable[i].v + StandardValue(Drop(s, Len(RomanTable[i].s) + 1), i)
    ELSE StandardValue(s, i + 1)

EndsWith(s, suffix) ==
    Len(s) >= Len(suffix) /\ SubSeq(s, Len(s) - Len(suffix) + 1, Len(s)) = suffix

\* the store's provisions of document d include provision_ref ref
Stores_(store, d, ref) ==
    \E p \in store.provisions : p.document_id = d.id /\ p.provision_ref = ref

\* C3: when the cited section is a Roman numeral in standard subtractive
\* notation of value n, with or without an ordinal suffix, and the citation
\* resolves to a document that stores provision art<n>, validateCitation
\* reports document_exists and provision_exists.
C3_RomanEquivalence ==
    pc = "validated" =>
        \A suffix \in OrdinalSuffixes :
            LET p == result.citation
                numeral == SubSeq(Val(p.section), 1, Len(Val(p.section)) - Len(suffix))
                n == StandardValue(numeral, 1)
            IN (/\ p.valid
                /\ IsSome(p.section)
                /\ EndsWith(Val(p.section), suffix)
                /\ n >= 1
                /\ Roman(n) = numeral
                /\ ResolveDocs(db, p) # {}
                /\ \A d \in ResolveDocs(db, p) : Stores_(db, d, sArt \o NumToStr(n)))
               => result.document_exists /\ result.provision_exists

\* C3 witness: article XCIV.er is found under art94
C3_Witness ==
    /\ pc = "validated"
    /\ result.citation.section = Some(<<"X","C","I","V",".","e","r">>)
    /\ Stores_(db, DocA, <<"a","r","t","9","4">>)
    /\ result.document_exists
    /\ result.provision_exists

\* the refs that denote the cited article: the cleaned token and the value of
\* a Roman numeral, each with or without the art prefix
DenotingRefs(section) ==
    LET normalized == StripTrailingPunct(RemoveSpaces(StripArtPrefix(ToLower(Trim(section)))))
        numeral == ToUpper(StripEr(RemoveDots(normalized)))
        n == StandardValue(numeral, 1)
    IN {normalized, sArt \o normalized}
         \cup (IF n >= 1 /\ Roman(n) = numeral THEN {NumToStr(n), sArt \o NumToStr(n)} ELSE {})

\* C4: provision_exists is reported only if the matched document holds a
\* provision whose provision_ref denotes the cited article.
C4_ProvisionExistsIsSound ==
    (pc = "validated" /\ result.provision_exists) =>
        \E d \in db.documents :
            /\ result.document_title = Some(d.title)
            /\ \E p \in db.provisions :
                  /\ p.document_id = d.id
                  /\ SqlLower(p.provision_ref) \in DenotingRefs(Val(result.citation.section))

\* sub occurs in s, letters compared without case
ContainsNoCase(s, sub) == \E i \in 1..(Len(s) + 1) : LitAt(s, i, sub, TRUE)

\* C5: for a citation with a title, document_exists is reported only if the
\* store holds a document whose title contains the cited title.
C5_DocumentExistsIsSound ==
    (pc = "validated" /\ result.document_exists /\ Truthy(result.citation.title)) =>
        \E d \in db.documents : ContainsNoCase(d.title, Val(result.citation.title))

\* C6: provision_exists implies document_exists, and when the citation does
\* not parse or no document resolves both flags are false and there is a
\* warning.
C6_FlagsConsistent ==
    pc = "validated" =>
        /\ result.provision_exists => result.document_exists
        /\ (~parseCitation(citation).valid \/ ResolveDocs(db, parseCitation(citation)) = {}) =>
              /\ ~result.document_exists
              /\ ~result.provision_exists
              /\ Len(result.warnings) > 0
              /\ \A i \in 1..Len(result.warnings) : result.warnings[i] # <<>>

\* C6 witness: a citation that parses, in a store with documents, none of
\* which resolves
C6_Witness ==
    /\ pc = "validated"
    /\ result.citation.valid
    /\ db.documents # {}
    /\ ResolveDocs(db, result.citation) = {}
    /\ ~result.document_exists
    /\ Len(result.warnings) = 1

(***************************************************************************)
(* Properties of dedupeProvisions.                                         *)
(***************************************************************************)
Deduped == pc \in {"deduped", "rerun", "loaded", "constraint_failed"}
NoDuplicates == [duplicate_refs |-> 0, conflicting_duplicates |-> 0]
Key(provision) == Trim(provision.provision_ref)
NormLen(provision) == Len(normalizeWhitespace(provision.content))

\* C7: the deduplicator run on its own output returns the same list and
\* counts no duplicate.
C7_Idempotent ==
    pc = "rerun" => dedup2.deduped = dedup.deduped /\ dedup2.stats = NoDuplicates

\* the distinct trimmed refs of a list, in the order of their first occurrence
FirstRefs(list) ==
    LET firsts == SelectSeq([i \in 1..Len(list) |-> i],
                            LAMBDA i : \A k \in 1..(i - 1) : Key(list[k]) # Key(list[i]))
    IN [j \in 1..Len(firsts) |-> Key(list[firsts[j]])]

\* C8: the output holds no two provisions with the same trimmed ref, its refs
\* are in the order of their first occurrence in the input, and inserting it
\* never meets UNIQUE(document_id, provision_ref).
C8_UniqueInOrder ==
    Deduped =>
        /\ \A i, j \in 1..Len(dedup.deduped) :
              Key(dedup.deduped[i]) = Key(dedup.deduped[j]) => i = j
        /\ [i \in 1..Len(dedup.deduped) |-> Key(dedup.deduped[i])] = FirstRefs(provisions)
        /\ pc # "constraint_failed"

\* C8 witness: refs in the order X, Y, X loaded as the two rows X, Y
C8_Witness ==
    /\ pc = "loaded"
    /\ Len(provisions) = 3
    /\ Key(provisions[1]) = Key(provisions[3])
    /\ Key(provisions[1]) # Key(provisions[2])
    /\ provisions[1].provision_ref # provisions[3].provision_ref
    /\ Len(db.provisions) = 2
    /\ Key(dedup.deduped[1]) = Key(provisions[1])

\* what the claim about two conflicting provisions says of the result
TwoProvisionOutcome ==
    /\ dedup.stats = [duplicate_refs |-> 1, conflicting_duplicates |-> 1]
    /\ Len(dedup.deduped) = 1
    /\ \A i, j \in 1..2 :
          NormLen(provisions[i]) > NormLen(provisions[j]) =>
              dedup.deduped[1].content = provisions[i].content

\* C9 as stated: two provisions with the same ref and different content give
\* duplicate_refs = 1, conflicting_duplicates = 1, and the one of strictly
\* greater normalized content length survives.
C9_AsStated ==
    (/\ Deduped
     /\ Len(provisions) = 2
     /\ Key(provisions[1]) = Key(provisions[2])
     /\ provisions[1].content # provisions[2].content) => TwoProvisionOutcome

\* C9 amended: two provisions with the same ref and different
\* whitespace-normalized content give duplicate_refs = 1,
\* conflicting_duplicates = 1, and the one of strictly greater normalized
\* content length survives.
C9_ConflictDetection ==
    (/\ Deduped
     /\ Len(provisions) = 2
     /\ Key(provisions[1]) = Key(provisions[2])
     /\ normalizeWhitespace(provisions[1].content)
          # normalizeWhitespace(provisions[2].content)) => TwoProvisionOutcome

\* C9 witness: the second of two conflicting provisions is longer and survives
C9_Witness ==
    /\ pc = "deduped"
    /\ Len(provisions) = 2
    /\ Key(provisions[1]) = Key(provisions[2])
    /\ NormLen(provisions[2]) > NormLen(provisions[1])
    /\ dedup.stats = [duplicate_refs |-> 1, conflicting_duplicates |-> 1]
    /\ dedup.deduped[1].content = provisions[2].content

\* the earliest input provision of the ref of longest normalized content
Richest(list, key) ==
    CHOOSE k \in 1..Len(list) :
        /\ Key(list[k]) = key
        /\ \A m \in 1..Len(list) :
              Key(list[m]) = key =>
                  \/ NormLen(list[m]) < NormLen(list[k])
                  \/ NormLen(list[m]) = NormLen(list[k]) /\ k <= m

\* C10: for every ref the surviving content is that of the earliest input
\* provision of that ref whose normalized content is longest, and the
\* surviving title is absent only if no input provision of the ref has one.
C10_RicherContentWins ==
    Deduped =>
        \A i \in 1..Len(dedup.deduped) :
            LET key == Key(dedup.deduped[i])
            IN /\ dedup.deduped[i].content = provisions[Richest(provisions, key)].content
               /\ dedup.deduped[i].title = None =>
                     \A k \in 1..Len(provisions) :
                         Key(provisions[k]) = key => provisions[k].title = None

\* C10 witness: of three provisions of one ref the second and third are
\* equally long and longer than the first; the second survives and takes the
\* title it lacks from another
C10_Witness ==
    /\ pc = "deduped"
    /\ Len(provisions) = 3
    /\ Key(provisions[1]) = Key(provisions[2])
    /\ Key(provisions[2]) = Key(provisions[3])
    /\ NormLen(provisions[1]) < NormLen(provisions[2])
    /\ NormLen(provisions[2]) = NormLen(provisions[3])
    /\ provisions[2].content # provisions[3].content
    /\ provisions[2].title = None
    /\ provisions[3].title # None
    /\ dedup.deduped[1].content = provisions[2].content
    /\ dedup.deduped[1].title # None

(***************************************************************************)
(* The ingestion pipeline (src/unnamed/part_001) and its fetcher           *)
(* (src/unnamed/part_000): seed ids and XML URLs.                          *)
(***************************************************************************)
RECURSIVE WordRun(_, _)
WordRun(s, p) == IF p <= Len(s) /\ IsWordChar(s[p]) THEN 1 + WordRun(s, p + 1) ELSE 0

\* exactly n digits at position p
DigitsAt(s, p, n) == p + n - 1 <= Len(s) /\ \A k \in p..(p + n - 1) : IsDigit(s[k])

sSlash == <<"/">>
sEliEtat == <<"/","e","l","i","/","e","t","a","t","/">>
sLeg == <<"l","e","g","/">>

\* (\w+)\/(\d{4})\/(\d{2})\/(\d{2})\/(\w+)\/ at position p, where tl is the
\* length of the run of word characters at p.  A run of word characters
\* ends before the "/" that has to follow it, so \w+ takes the whole run.
SeedTailOk(s, p, tl) ==
    /\ tl > 0
    /\ LitAt(s, p + tl, sSlash, FALSE)
    /\ DigitsAt(s, p + tl + 1, 4) /\ LitAt(s, p + tl + 5, sSlash, FALSE)
    /\ DigitsAt(s, p + tl + 6, 2) /\ LitAt(s, p + tl + 8, sSlash, FALSE)
    /\ DigitsAt(s, p + tl + 9, 2) /\ LitAt(s, p + tl + 11, sSlash, FALSE)
    /\ WordRun(s, p + tl + 12) > 0
    /\ LitAt(s, p + tl + 12 + WordRun(s, p + tl + 12), sSlash, FALSE)

\* the match of the pattern of generateSeedId that starts at position i: the
\* position of the type group, 0 when there is none.  (?:leg\/)? is tried
\* with leg/ first, then without.
SeedMatchAt(s, i) ==
    IF ~LitAt(s, i, sEliEtat, FALSE) THEN 0
    ELSE IF LitAt(s, i + 10, sLeg, FALSE) /\ SeedTailOk(s, i + 14, WordRun(s, i + 14))
    THEN i + 14
    ELSE IF SeedTailOk(s, i + 10, WordRun(s, i + 10)) THEN i + 10
    ELSE 0

\* `${type}-${year}-${month}-${day}-${ref}` for the groups that start at p
SeedFromGroups(s, p, tl) ==
    SubSeq(s, p, p + tl - 1) \o <<"-">> \o SubSeq(s, p + tl + 1, p + tl + 4) \o <<"-">>
      \o SubSeq(s, p + tl + 6, p + tl + 7) \o <<"-">> \o SubSeq(s, p + tl + 9, p + tl + 10)
      \o <<"-">> \o SubSeq(s, p + tl + 12, p + tl + 11 + WordRun(s, p + tl + 12))

\* uri.split('/').filter(Boolean): the non-empty segments from position i on,
\* cur being the segment read so far
RECURSIVE Segments(_, _, _)
Segments(s, i, cur) ==
    IF i > Len(s) THEN (IF cur = <<>> THEN <<>> ELSE <<cur>>)
    ELSE IF s[i] = "/"
    THEN (IF cur = <<>> THEN <<>> ELSE <<cur>>) \o Segments(s, i + 1, <<>>)
    ELSE Segments(s, i + 1, Append(cur, s[i]))

\* parts.join(sep)
RECURSIVE Join(_, _)
Join(parts, sep) ==
    IF Len(parts) = 0 THEN <<>>
    ELSE IF Len(parts) = 1 THEN parts[1]
    ELSE parts[1] \o sep \o Join(Tail(parts), sep)

\* parts.slice(-4): the last four segments
SliceLastFour(parts) ==
    SubSeq(parts, (IF Len(parts) > 4 THEN Len(parts) - 3 ELSE 1), Len(parts))

\* parts.slice(-5, -1): the four segments before the last one
SliceBeforeLast(parts) ==
    SubSeq(parts, (IF Len(parts) > 5 THEN Len(parts) - 4 ELSE 1), Len(parts) - 1)

\* the leftmost match of the pattern, as the start of its type group
FirstSeedMatch(s) ==
    SeedMatchAt(s, CHOOSE i \in 1..Len(s) :
                      SeedMatchAt(s, i) > 0 /\ \A j \in 1..(i - 1) : SeedMatchAt(s, j) = 0)

SeedIdOfMatch(s, p) == SeedFromGroups(s, p, WordRun(s, p))

SeedIdOfUri(uri) ==
    IF \E i \in 1..Len(uri) : SeedMatchAt(uri, i) > 0
    THEN SeedIdOfMatch(uri, FirstSeedMatch(uri))
    ELSE Join(SliceBeforeLast(Segments(uri, 1, <<>>)), <<"-">>)

generateSeedId(entry) == SeedIdOfUri(entry.uri)

\* eliUri.replace(/^https?:\/\/data\.legilux\.public\.lu\//, '')
sLegiluxHost == <<":","/","/","d","a","t","a",".","l","e","g","i","l","u","x",".","p","u","b","l","i","c",".","l","u","/">>
StripLegiluxHost(u) ==
    IF LitAt(u, 1, <<"h","t","t","p","s">> \o sLegiluxHost, FALSE) THEN Drop(u, 32)
    ELSE IF LitAt(u, 1, <<"h","t","t","p">> \o sLegiluxHost, FALSE) THEN Drop(u, 31)
    ELSE u

\* s.replace(/\//g, '-')
SlashesToHyphens(s) == [i \in 1..Len(s) |-> IF s[i] = "/" THEN "-" ELSE s[i]]

\* `https://data.legilux.public.lu/filestore/${frXmlPath}/${filename}.xml`
XmlUrlOfPath(frXmlPath) ==
    <<"h","t","t","p","s",":","/","/","d","a","t","a",".","l","e","g","i","l","u","x",".","p","u","b","l","i","c",".","l","u","/","f","i","l","e","s","t","o","r","e","/">> \o frXmlPath \o sSlash
      \o SlashesToHyphens(frXmlPath) \o <<".","x","m","l">>

buildXmlUrl(eliUri) == XmlUrlOfPath(StripLegiluxHost(eliUri) \o <<"/","f","r","/","x","m","l">>)

(***************************************************************************)
(* generateSeedId on source URIs, well formed or not.                      *)
(***************************************************************************)
UriHosts == {<<"h","t","t","p",":","/","/","d","a","t","a",".","l","e","g","i","l","u","x",".","p","u","b","l","i","c",".","l","u">>, <<"h","t","t","p","s",":","/","/","h">>}
UriHeads == {<<"/","e","l","i","/","e","t","a","t","/">>, <<"/","e","l","i","/","e","t","a","t","/","l","e","g","/">>, <<"/","e","l","i","/">>, <<"/","e","l","i","/","e","t","a","t","/","l","e","g","/","l","e","g","/">>}
UriTypes == {<<"l","o","i">>, <<"l","e","g">>, <<"r","-","d">>}
UriYears == {<<"2","0","2","6">>, <<"2","2","6">>, <<"2","0","2","6","1">>}
UriMonths == {<<"0","2">>, <<"2">>}
UriRefs == {<<"a","3","3">>, <<"a","_","3">>, <<>>}
UriTails == {<<"/","j","o">>, <<>>, <<"/">>, <<"/","j","o","/","f","r">>}

SeedUris ==
    {h \o e \o t \o sSlash \o y \o sSlash \o m \o <<"/","0","5","/">> \o r \o tl :
        h \in UriHosts, e \in UriHeads, t \in UriTypes, y \in UriYears,
        m \in UriMonths, r \in UriRefs, tl \in UriTails}

\* the entry of the index whose seed id is computed
SeedIdInit ==
    /\ pc = "uri"
    /\ disc \in {[uri |-> u] : u \in SeedUris}
    /\ phase2 = Idle
    /\ flags = Idle /\ endpoint = Idle /\ files = Idle /\ net = Idle /\ seedFiles = Idle
    /\ citation = Idle /\ parsed = Idle /\ formatted = Idle /\ db = Idle
    /\ result = Idle /\ provisions = Idle /\ dedup = Idle /\ dedup2 = Idle

GenerateSeedId ==
    /\ pc = "uri"
    /\ phase2' = generateSeedId(disc)
    /\ pc' = "seed_id"
    /\ UNCHANGED <<engineVars, db, flags, endpoint, files, disc, net, seedFiles>>

NextSeedId == GenerateSeedId

SpecSeedId == SeedIdInit /\ [][NextSeedId]_vars

\* the text at position i is /eli/etat/[leg/]<type>/<yyyy>/<mm>/<dd>/<ref>/
\* with a type of tl and a ref of rl word characters (lg: with leg/)
HasShapeAt(u, i, lg, tl, rl) ==
    LET p == i + 10 + (IF lg THEN 4 ELSE 0)
    IN /\ LitAt(u, i, sEliEtat \o (IF lg THEN sLeg ELSE <<>>), FALSE)
       /\ p + tl + 12 + rl <= Len(u)
       /\ \A k \in p..(p + tl - 1) : IsWordChar(u[k])
       /\ \A k \in (p + tl + 12)..(p + tl + 11 + rl) : IsWordChar(u[k])
       /\ \A k \in {p + tl + 1, p + tl + 2, p + tl + 3, p + tl + 4, p + tl + 6,
                    p + tl + 7, p + tl + 9, p + tl + 10} : IsDigit(u[k])
       /\ \A k \in {p + tl, p + tl + 5, p + tl + 8, p + tl + 11, p + tl + 12 + rl} : u[k] = "/"

\* '<type>-<yyyy>-<mm>-<dd>-<ref>' of that shape
ShapeId(u, i, lg, tl, rl) ==
    LET p == i + 10 + (IF lg THEN 4 ELSE 0)
    IN SubSeq(u, p, p + tl - 1) \o <<"-">> \o SubSeq(u, p + tl + 1, p + tl + 4) \o <<"-">>
         \o SubSeq(u, p + tl + 6, p + tl + 7) \o <<"-">> \o SubSeq(u, p + tl + 9, p + tl + 10)
         \o <<"-">> \o SubSeq(u, p + tl + 12, p + tl + 11 + rl)

\* the shape up to the "/" before <ref>
HasShapeHead(u, i, lg, tl) ==
    LET p == i + 10 + (IF lg THEN 4 ELSE 0)
    IN /\ LitAt(u, i, sEliEtat \o (IF lg THEN sLeg ELSE <<>>), FALSE)
       /\ p + tl + 11 <= Len(u)
       /\ \A k \in p..(p + tl - 1) : IsWordChar(u[k])
       /\ \A k \in {p + tl, p + tl + 5, p + tl + 8, p + tl + 11} : u[k] = "/"

\* every way the URI contains the shape: <<position, with leg/, length of
\* the type, length of the ref>>
Shapes(u) ==
    UNION {{<<y[1], y[2], y[3], rl>> :
               rl \in {r \in 1..Len(u) : HasShapeAt(u, y[1], y[2], y[3], r)}} :
           y \in {z \in {i \in 1..Len(u) : LitAt(u, i, sEliEtat, FALSE)}
                          \X BOOLEAN \X (1..Len(u)) :
                      HasShapeHead(u, z[1], z[2], z[3])}}

\* C17 as stated: a URI of the shape gets '<type>-<yyyy>-<mm>-<dd>-<ref>',
\* every other URI gets its last four path segments joined with '-'.
C17_AsStated ==
    pc = "seed_id" =>
        IF Shapes(disc.uri) # {}
        THEN \E x \in Shapes(disc.uri) : phase2 = ShapeId(disc.uri, x[1], x[2], x[3], x[4])
        ELSE phase2 = Join(SliceLastFour(Segments(disc.uri, 1, <<>>)), <<"-">>)

\* C17: a URI of the shape gets '<type>-<yyyy>-<mm>-<dd>-<ref>', every other
\* URI gets the four path segments that precede its last segment (fewer when
\* there are fewer), joined with '-'.
C17_SeedIdShape ==
    pc = "seed_id" =>
        LET parts == Segments(disc.uri, 1, <<>>)
            n == Len(parts)
        IN IF Shapes(disc.uri) # {}
           THEN \E x \in Shapes(disc.uri) : phase2 = ShapeId(disc.uri, x[1], x[2], x[3], x[4])
           ELSE phase2 = Join([k \in 1..(IF n > 5 THEN 4 ELSE IF n > 0 THEN n - 1 ELSE 0) |->
                                parts[k + (IF n > 5 THEN n - 5 ELSE 0)]], <<"-">>)

\* C17 witness: a URI without the shape (no /eli/etat/) got the four segments
\* before its last one
C17_Witness ==
    /\ pc = "seed_id"
    /\ disc.uri = <<"h","t","t","p","s",":","/","/","h","/","e","l","i","/","l","o","i","/","2","0","2","6","/","0","2","/","0","5","/","a","3","3","/","j","o">>
    /\ phase2 = <<"2","0","2","6","-","0","2","-","0","5","-","a","3","3">>

(***************************************************************************)
(* The ingestion run: rateLimit, sparqlQuery and fetchXml of               *)
(* src/unnamed/part_000; main, discoverLaws and fetchAndParseLaws of       *)
(* src/unnamed/part_001.  The run is one thread of control: each action is *)
(* one iteration of a loop, from the request it awaits to the next one.    *)
(***************************************************************************)
DOC_TYPES == <<"LOI", "RGD">>
\* rows per page of a discovery query (5000 in the source)
PAGE_SIZE == 2
\* largest number of rows the endpoint holds for one document type
MaxTotal == 3
MIN_DELAY_MS == 500

sSparqlEndpoint == <<"h","t","t","p","s",":","/","/","d","a","t","a",".","l","e","g","i","l","u","x",".","p","u","b","l","i","c",".","l","u","/","s","p","a","r","q","l","e","n","d","p","o","i","n","t">>

\* rateLimit without its timer: the request goes out at once
rateLimitNoWait(now, last, late) == now

\* rateLimit(): the time at which it returns, which it stores in
\* lastRequestTime.  now is Date.now() at the call; late is the time by which
\* the timer fires after the delay it was set to.
rateLimit(now, last, late) ==
    IF now - last < MIN_DELAY_MS THEN now + (MIN_DELAY_MS - (now - last)) + late ELSE now

\* the state of the network after a request that left at time at and was
\* answered latency later
AfterRequest(n, kind, url, at, latency) ==
    [n EXCEPT !.lastRequestTime = at,
              !.requests = Append(@, [kind |-> kind, url |-> url, at |-> at]),
              !.clock = at + latency]

\* LIMIT ${PAGE_SIZE} OFFSET ${offset} of the ordered rows
Page(rows, offset) ==
    SubSeq(rows, offset + 1, IF offset + PAGE_SIZE < Len(rows) THEN offset + PAGE_SIZE ELSE Len(rows))

\* allEntries.push({uri, date, title, typeDocument, xmlUrl}) for each binding
EntriesOf(bindings, docType) ==
    [k \in 1..Len(bindings) |->
        [uri |-> bindings[k].act, date |-> bindings[k].date, title |-> bindings[k].title,
         typeDocument |-> docType, xmlUrl |-> bindings[k].xmlUrl]]

\* discovery ends after the first document type
DiscoveryDoneEarly(d) == d.docIdx > 1

\* the for loop over DOC_TYPES has ended
DiscoveryDone(d) == d.docIdx > Len(DOC_TYPES)

\* the loop stops after a page of exactly PAGE_SIZE rows as well
LastPageOrFull(n) == n <= PAGE_SIZE

\* if (bindings.length < PAGE_SIZE) hasMore = false
LastPage(n) == n < PAGE_SIZE

\* the loop state after a page of n rows: the next page of the same
\* document type, or the first page of the next type
NextPage(d, entries, n) ==
    IF LastPage(n)
    THEN [docIdx |-> d.docIdx + 1, offset |-> 0, allEntries |-> d.allEntries \o entries]
    ELSE [docIdx |-> d.docIdx, offset |-> d.offset + PAGE_SIZE,
          allEntries |-> d.allEntries \o entries]

\* allEntries.filter(..) with the Set seen: the first entry of each URI
RECURSIVE DedupeByUri(_, _)
DedupeByUri(entries, i) ==
    IF i > Len(entries) THEN <<>>
    ELSE IF \E k \in 1..(i - 1) : entries[k].uri = entries[i].uri
    THEN DedupeByUri(entries, i + 1)
    ELSE <<entries[i]>> \o DedupeByUri(entries, i + 1)

\* entries.filter((entry) => REQUESTED_IDS.has(generateSeedId(entry)))
RECURSIVE SelectRequested(_, _, _)
SelectRequested(entries, ids, i) ==
    IF i > Len(entries) THEN <<>>
    ELSE IF generateSeedId(entries[i]) \in ids
    THEN <<entries[i]>> \o SelectRequested(entries, ids, i + 1)
    ELSE SelectRequested(entries, ids, i + 1)

\* LIMIT > 0 ? selectedEntries.slice(0, LIMIT) : selectedEntries
LimitEntries(selected, limit) ==
    IF limit > 0 THEN SubSeq(selected, 1, IF limit < Len(selected) THEN limit ELSE Len(selected))
    ELSE selected

\* fetchAndParseLaws up to its loop: toProcess and the counters
BeginFetch(entries) ==
    [toProcess |-> LimitEntries(IF IsSome(flags.ids)
                                THEN SelectRequested(entries, Val(flags.ids), 1)
                                ELSE entries, flags.limit),
     i |-> 0, processed |-> 0, skipped |-> 0, failed |-> 0, noArticles |-> 0,
     log |-> <<>>]

\* main up to its first request: the saved index is reused, or discovery starts
StartRun ==
    /\ pc = "main"
    /\ IF flags.skipDiscovery /\ IsSome(files.index)
       THEN /\ phase2' = BeginFetch(Val(files.index))
            /\ pc' = "fetch"
            /\ disc' = disc
       ELSE /\ disc' = [docIdx |-> 1, offset |-> 0, allEntries |-> <<>>]
            /\ pc' = "discover"
            /\ phase2' = phase2
    /\ UNCHANGED <<engineVars, db, seedFiles, flags, endpoint, files, net>>

\* one iteration of the while loop of discoverLaws: sparqlQuery, then the
\* bindings are pushed.  A response that is not ok, or no response, throws:
\* main rejects and the process exits.
SparqlQuery ==
    /\ pc = "discover"
    /\ ~DiscoveryDone(disc)
    /\ \E late \in net.lates, latency \in net.latencies, ok \in BOOLEAN :
          /\ net' = AfterRequest(net, "sparql",
                                 sSparqlEndpoint \o <<"?">> \o <<DOC_TYPES[disc.docIdx]>>
                                   \o <<"?">> \o NumToStr(disc.offset),
                                 rateLimit(net.clock, net.lastRequestTime, late), latency)
          /\ IF ok
             THEN /\ disc' = NextPage(disc,
                                      EntriesOf(Page(endpoint[DOC_TYPES[disc.docIdx]], disc.offset),
                                                DOC_TYPES[disc.docIdx]),
                                      Len(Page(endpoint[DOC_TYPES[disc.docIdx]], disc.offset)))
                  /\ pc' = pc
             ELSE /\ disc' = disc
                  /\ pc' = "aborted"
    /\ UNCHANGED <<engineVars, db, seedFiles, flags, endpoint, files, phase2>>

\* the end of discoverLaws: the entries are deduplicated, the index is
\* written, and main enters fetchAndParseLaws
FinishDiscovery ==
    /\ pc = "discover"
    /\ DiscoveryDone(disc)
    /\ files' = [files EXCEPT !.index = Some(DedupeByUri(disc.allEntries, 1))]
    /\ phase2' = BeginFetch(DedupeByUri(disc.allEntries, 1))
    /\ pc' = "fetch"
    /\ UNCHANGED <<engineVars, db, seedFiles, flags, endpoint, disc, net>>

NextDiscover == StartRun \/ SparqlQuery \/ FinishDiscovery

(***************************************************************************)
(* What the endpoint holds: rows ordered by date, latest first.            *)
(***************************************************************************)
UriA == <<"h","t","t","p",":","/","/","d","a","t","a",".","l","e","g","i","l","u","x",".","p","u","b","l","i","c",".","l","u","/","e","l","i","/","e","t","a","t","/","l","e","g","/","l","o","i","/","2","0","2","6","/","0","2","/","0","5","/","a","3","3","/","j","o">>
UriB == <<"h","t","t","p",":","/","/","d","a","t","a",".","l","e","g","i","l","u","x",".","p","u","b","l","i","c",".","l","u","/","e","l","i","/","e","t","a","t","/","l","e","g","/","l","o","i","/","2","0","2","6","/","0","2","/","0","5","/","a","3","3","/","c","o","n","s","o","l","i","d","e","/","2","0","2","6","0","3","0","1">>
UriC == <<"h","t","t","p",":","/","/","d","a","t","a",".","l","e","g","i","l","u","x",".","p","u","b","l","i","c",".","l","u","/","e","l","i","/","e","t","a","t","/","l","e","g","/","r","g","d","/","2","0","2","5","/","1","2","/","0","1","/","a","5","/","j","o">>
sFilestore == <<"h","t","t","p","s",":","/","/","d","a","t","a",".","l","e","g","i","l","u","x",".","p","u","b","l","i","c",".","l","u","/","f","i","l","e","s","t","o","r","e","/">>

Bindings ==
    {[act |-> UriA, date |-> <<"2","0","2","6","-","0","2","-","0","5">>, title |-> <<"L","o","i">>, xmlUrl |-> buildXmlUrl(UriA)],
     [act |-> UriA, date |-> <<"2","0","2","6","-","0","2","-","0","9">>, title |-> <<"L","o","i">>, xmlUrl |-> sFilestore \o <<"a","3","3",".","x","m","l">>],
     [act |-> UriB, date |-> <<"2","0","2","6","-","0","2","-","0","5">>, title |-> <<"L","o","i">>, xmlUrl |-> sFilestore \o <<"b",".","x","m","l">>],
     [act |-> UriC, date |-> <<"2","0","2","5","-","1","2","-","0","1">>, title |-> <<"R","g","d">>, xmlUrl |-> sFilestore \o <<"a","5",".","x","m","l">>]}

\* a < b as strings of hyphens, digits and lower-case letters, which sort in
\* that order
CharCode(c) ==
    IF c = "-" THEN 0
    ELSE IF c \in Digits THEN DigitVal(c) + 1
    ELSE 10 + (CHOOSE i \in 1..26 : LowerChars[i] = c)
RECURSIVE StrLess(_, _)
StrLess(a, b) ==
    IF Len(b) = 0 THEN FALSE
    ELSE IF Len(a) = 0 THEN TRUE
    ELSE IF a[1] = b[1] THEN StrLess(Tail(a), Tail(b))
    ELSE CharCode(a[1]) < CharCode(b[1])

\* ORDER BY DESC(?date)
OrderedRows(rows) == \A k \in 1..(Len(rows) - 1) : ~StrLess(rows[k].date, rows[k + 1].date)

RowLists(from) ==
    UNION {{rows \in [1..n -> from] : OrderedRows(rows)} : n \in 0..MaxTotal}

NoFlags == [force |-> FALSE, skipDiscovery |-> FALSE, limit |-> 0, ids |-> None]
NoFiles == [index |-> None, seeds |-> <<>>]
\* the network before the first request; latencies: the times a response may
\* take, lates: the times by which a timer may fire late, responses: what the
\* server may answer to an XML request
StartNet(latencies, lates, responses) ==
    [clock |-> 1000, lastRequestTime |-> 0, requests |-> <<>>,
     latencies |-> latencies, lates |-> lates, responses |-> responses]

\* a run of discovery (no --skip-discovery) against any endpoint content
DiscoverInit ==
    /\ pc = "main"
    /\ flags = NoFlags
    /\ endpoint \in [LOI : RowLists(Bindings), RGD : RowLists(Bindings)]
    /\ files = NoFiles
    /\ net = StartNet({0}, {0}, {})
    /\ disc = Idle /\ phase2 = Idle /\ seedFiles = Idle
    /\ citation = Idle /\ parsed = Idle /\ formatted = Idle /\ db = Idle
    /\ result = Idle /\ provisions = Idle /\ dedup = Idle /\ dedup2 = Idle

SpecDiscover == DiscoverInit /\ [][NextDiscover]_vars

\* discovery is over and the index is saved
Discovered == pc = "fetch" /\ disc # Idle

\* the rows returned by the queries of the run
AllRows == endpoint.LOI \o endpoint.RGD

\* the index has exactly one entry for each URI returned
OnePerUri ==
    /\ \A k \in 1..Len(AllRows) :
          \E j \in 1..Len(Val(files.index)) : Val(files.index)[j].uri = AllRows[k].act
    /\ \A j, k \in 1..Len(Val(files.index)) :
          Val(files.index)[j].uri = Val(files.index)[k].uri => j = k
    /\ \A j \in 1..Len(Val(files.index)) :
          \E k \in 1..Len(AllRows) : Val(files.index)[j].uri = AllRows[k].act

\* C11: the saved index holds one entry per distinct URI returned, and the
\* entry kept for a URI carries the greatest date returned for that URI.
C11_KeepsGreatestDate ==
    Discovered =>
        /\ OnePerUri
        /\ \A j \in 1..Len(Val(files.index)) : \A k \in 1..Len(AllRows) :
              Val(files.index)[j].uri = AllRows[k].act
                 => ~StrLess(Val(files.index)[j].date, AllRows[k].date)

\* the number of discovery queries issued for a document type
QueryCount(docType) ==
    Cardinality({k \in 1..Len(net.requests) :
                    /\ net.requests[k].kind = "sparql"
                    /\ LitAt(net.requests[k].url, Len(sSparqlEndpoint) + 2, <<docType>>, FALSE)})

\* C12 as stated: each document type takes ceil(total / PAGE_SIZE) queries.
C12_AsStated ==
    Discovered =>
        \A t \in {"LOI", "RGD"} :
            QueryCount(t) = (Len(endpoint[t]) + PAGE_SIZE - 1) \div PAGE_SIZE

\* C12: each document type takes floor(total / PAGE_SIZE) + 1 queries: the
\* loop ends on the first page shorter than PAGE_SIZE, which is an empty
\* page when total is a multiple of PAGE_SIZE (zero included).
C12_QueriesPerType ==
    Discovered =>
        \A t \in {"LOI", "RGD"} : QueryCount(t) = (Len(endpoint[t]) \div PAGE_SIZE) + 1

\* C12 witness: a document type with exactly PAGE_SIZE rows took two queries
C12_Witness ==
    /\ Discovered
    /\ Len(endpoint.LOI) = PAGE_SIZE
    /\ QueryCount("LOI") = 2

(***************************************************************************)
(* Phase 2: fetchAndParseLaws.                                             *)
(***************************************************************************)
\* what the server may answer to an XML request: no answer at all (fetch
\* rejects), or a status and a body
XmlWithArticle == <<"<","a","k","o","m","a","N","t","o","s","o",">","<","a","c","t",">","<","a","r","t","i","c","l","e","/",">","<","/","a","c","t",">","<","/","a","k","o","m","a","N","t","o","s","o",">">>
XmlNoArticle == <<"<","a","k","o","m","a","N","t","o","s","o",">","<","a","c","t","/",">","<","/","a","k","o","m","a","N","t","o","s","o",">">>
Responses ==
    {[error |-> TRUE, ok |-> FALSE, body |-> <<>>],
     [error |-> FALSE, ok |-> FALSE, body |-> <<"N","o","t"," ","F","o","u","n","d">>],
     [error |-> FALSE, ok |-> TRUE, body |-> <<"<","!","D","O","C","T","Y","P","E"," ","h","t","m","l",">","<","h","t","m","l",">">>],
     [error |-> FALSE, ok |-> TRUE, body |-> <<"<","h","t","m","l",">">>],
     [error |-> FALSE, ok |-> TRUE, body |-> <<>>],
     [error |-> FALSE, ok |-> TRUE, body |-> <<"<","a","k","o","m","a","N","t","o","s","o","/",">">>],
     [error |-> FALSE, ok |-> TRUE, body |-> XmlNoArticle],
     [error |-> FALSE, ok |-> TRUE, body |-> XmlWithArticle]}

\* fetchXml after its request: None is null
fetchXml(r) ==
    IF r.error \/ ~r.ok THEN None
    ELSE IF LitAt(r.body, 1, <<"<","!","D","O","C","T","Y","P","E"," ","h","t","m","l">>, FALSE) \/ LitAt(r.body, 1, <<"<","h","t","m","l">>, FALSE)
    THEN None
    ELSE Some(r.body)

\* parseAknXml on the documents the server of the model returns: None is
\* null (no akomaNtoso root with an act)
parseAknXml(xml) ==
    IF xml = XmlWithArticle
    THEN Some([title |-> <<"L","o","i"," ","d","u"," ","5">>, dateDocument |-> Some(<<"2","0","2","6","-","0","2","-","0","1">>), provisions |-> 1])
    ELSE IF xml = XmlNoArticle
    THEN Some([title |-> <<>>, dateDocument |-> None, provisions |-> 0])
    ELSE None

\* the seed document written for an entry
SeedDocument(entry, law) ==
    [id |-> generateSeedId(entry), type |-> "statute",
     title |-> IF law.title # <<>> THEN law.title ELSE entry.title,
     status |-> "in_force",
     issued_date |-> IF Truthy(law.dateDocument) THEN Val(law.dateDocument) ELSE entry.date,
     url |-> entry.uri, provisions |-> law.provisions]

\* fs.writeFileSync(seedPath, ..)
WriteFile(seeds, id, content) ==
    [k \in (DOMAIN seeds) \cup {id} |-> IF k = id THEN content ELSE seeds[k]]

\* an existing seed is never skipped
ShouldSkipNever(exists, force) == FALSE

\* if (fs.existsSync(seedPath) && !FORCE)
ShouldSkip(exists, force) == exists /\ ~force

\* the constructed URL is never tried
NeedsFallbackNever(entry, xml) == FALSE

\* if (!xml) { const altUrl = buildXmlUrl(entry.uri); if (altUrl !== entry.xmlUrl) .. }
NeedsFallback(entry, xml) == ~Truthy(xml) /\ buildXmlUrl(entry.uri) # entry.xmlUrl

\* the counters after an entry when failures are not counted
CountedNoFailure(p, outcome, tried) ==
    [p EXCEPT !.i = @ + 1,
              !.processed = IF outcome = "written" THEN @ + 1 ELSE @,
              !.skipped = IF outcome = "skipped" THEN @ + 1 ELSE @,
              !.log = Append(@, [entry |-> p.i + 1, outcome |-> outcome, tried |-> tried])]

\* the counters after an entry, with the record of what was done for it
Counted(p, outcome, tried) ==
    [p EXCEPT !.i = @ + 1,
              !.processed = IF outcome = "written" THEN @ + 1 ELSE @,
              !.skipped = IF outcome = "skipped" THEN @ + 1 ELSE @,
              !.failed = IF outcome \in {"fetch_failed", "parse_failed"} THEN @ + 1 ELSE @,
              !.log = Append(@, [entry |-> p.i + 1, outcome |-> outcome, tried |-> tried])]

\* a written seed without articles is counted as well
CountedWritten(p, law, tried) ==
    [Counted(p, "written", tried) EXCEPT
        !.noArticles = IF law.provisions = 0 THEN @ + 1 ELSE @]

\* fetchXml(url): the request goes through rateLimit
XmlRequest(n, url, late, latency) ==
    AfterRequest(n, "xml", url, rateLimit(n.clock, n.lastRequestTime, late), latency)

\* the rest of the loop body once parseAknXml has returned
StoreParsed(entry, law, tried) ==
    IF ~IsSome(law)
    THEN /\ phase2' = Counted(phase2, "parse_failed", tried)
         /\ files' = files
    ELSE /\ phase2' = CountedWritten(phase2, Val(law), tried)
         /\ files' = [files EXCEPT
                         !.seeds = WriteFile(@, generateSeedId(entry), SeedDocument(entry, Val(law)))]

\* the rest of the loop body once the XML is fetched or given up
StoreEntry(entry, xml, n, tried) ==
    /\ net' = n
    /\ IF ~Truthy(xml)
       THEN /\ phase2' = Counted(phase2, "fetch_failed", tried)
            /\ files' = files
       ELSE StoreParsed(entry, parseAknXml(Val(xml)), tried)

\* the loop body after the first fetchXml: xml1 is its result, n1 the
\* network after it; the constructed URL is requested when needed
FetchFirst(entry, xml1, n1) ==
    IF NeedsFallback(entry, xml1)
    THEN \E r2 \in n1.responses, late \in n1.lates, latency \in n1.latencies :
            StoreEntry(entry, fetchXml(r2),
                       XmlRequest(n1, buildXmlUrl(entry.uri), late, latency),
                       <<[url |-> entry.xmlUrl, ok |-> FALSE],
                         [url |-> buildXmlUrl(entry.uri), ok |-> Truthy(fetchXml(r2))]>>)
    ELSE StoreEntry(entry, xml1, n1, <<[url |-> entry.xmlUrl, ok |-> Truthy(xml1)]>>)

\* fs.existsSync(seedPath) for the entry the loop is at
SeedExists(entry) == generateSeedId(entry) \in DOMAIN files.seeds

\* an iteration that skips the entry
SkipEntry ==
    /\ pc = "fetch"
    /\ phase2.i < Len(phase2.toProcess)
    /\ ShouldSkip(SeedExists(phase2.toProcess[phase2.i + 1]), flags.force)
    /\ phase2' = Counted(phase2, "skipped", <<>>)
    /\ UNCHANGED <<engineVars, db, seedFiles, flags, endpoint, files, disc, net, pc>>

\* an iteration that fetches, parses and writes the entry
FetchEntry ==
    /\ pc = "fetch"
    /\ phase2.i < Len(phase2.toProcess)
    /\ ~ShouldSkip(SeedExists(phase2.toProcess[phase2.i + 1]), flags.force)
    /\ \E r1 \in net.responses, late \in net.lates, latency \in net.latencies :
          FetchFirst(phase2.toProcess[phase2.i + 1], fetchXml(r1),
                     XmlRequest(net, phase2.toProcess[phase2.i + 1].xmlUrl, late, latency))
    /\ UNCHANGED <<engineVars, db, seedFiles, flags, endpoint, disc, pc>>

\* the loop is over: the counters are printed and main returns
FinishRun ==
    /\ pc = "fetch"
    /\ phase2.i = Len(phase2.toProcess)
    /\ pc' = "done"
    /\ UNCHANGED <<engineVars, db, seedFiles, ingestVars>>

NextFetch == StartRun \/ SkipEntry \/ FetchEntry \/ FinishRun

NextIngest == StartRun \/ SparqlQuery \/ FinishDiscovery \/ SkipEntry \/ FetchEntry \/ FinishRun

\* largest number of entries of a saved index
MaxIndex == 2

IndexEntries == {EntriesOf(<<b>>, "LOI")[1] : b \in Bindings}

\* the indexes a discovery can have saved: entries of distinct URIs
IndexLists ==
    UNION {{ix \in [1..n -> IndexEntries] :
               \A j, k \in 1..n : ix[j].uri = ix[k].uri => j = k} : n \in 0..MaxIndex}

\* a seed left by an earlier run
OldSeed(id) ==
    [id |-> id, type |-> "statute", title |-> <<"o","l","d">>, status |-> "in_force",
     issued_date |-> <<"2","0","0","0","-","0","1","-","0","1">>, url |-> <<"o","l","d">>, provisions |-> 0]

SeedDirs(ids) == {[id \in have |-> OldSeed(id)] : have \in SUBSET ids}

\* a run with --skip-discovery over a saved index and a seed directory
FetchInit ==
    /\ pc = "main"
    /\ flags \in [force : BOOLEAN, skipDiscovery : {TRUE}, limit : {0, 1},
                  ids : {None, Some({SeedIdOfUri(UriA)})}]
    /\ files \in [index : {Some(ix) : ix \in IndexLists},
                  seeds : SeedDirs({SeedIdOfUri(UriA), SeedIdOfUri(UriC)})]
    /\ endpoint = [LOI |-> <<>>, RGD |-> <<>>]
    /\ net = StartNet({0}, {0}, Responses)
    /\ disc = Idle /\ phase2 = Idle /\ seedFiles = Idle
    /\ citation = Idle /\ parsed = Idle /\ formatted = Idle /\ db = Idle
    /\ result = Idle /\ provisions = Idle /\ dedup = Idle /\ dedup2 = Idle

SpecFetch == FetchInit /\ [][NextFetch]_vars

\* a whole run: any flags, a small endpoint, responses that take time
IngestInit ==
    /\ pc = "main"
    /\ flags \in [force : {FALSE}, skipDiscovery : BOOLEAN, limit : {0}, ids : {None}]
    /\ endpoint \in [LOI : RowLists({b \in Bindings : b.act = UriA /\ b.xmlUrl # buildXmlUrl(UriA)}),
                     RGD : {rows \in RowLists({b \in Bindings : b.act = UriC}) : Len(rows) <= 1}]
    /\ files \in [index : {None} \cup {Some(ix) : ix \in {jx \in IndexLists : Len(jx) = 1 /\ jx[1].uri = UriB}},
                  seeds : SeedDirs({SeedIdOfUri(UriA)})]
    /\ net = StartNet({0, 700}, {0, 300}, {r \in Responses : r.error \/ r.body = XmlWithArticle})
    /\ disc = Idle /\ phase2 = Idle /\ seedFiles = Idle
    /\ citation = Idle /\ parsed = Idle /\ formatted = Idle /\ db = Idle
    /\ result = Idle /\ provisions = Idle /\ dedup = Idle /\ dedup2 = Idle

SpecIngest == IngestInit /\ [][NextIngest]_vars


(***************************************************************************)
(* Claims about the fetch phase.                                           *)
(***************************************************************************)
\* the fetch loop has started
Fetching == pc \in {"fetch", "done"} /\ phase2 # Idle

\* the URLs of the XML requests sent so far, in order
RECURSIVE XmlUrlsSent(_, _)
XmlUrlsSent(requests, k) ==
    IF k > Len(requests) THEN <<>>
    ELSE IF requests[k].kind = "xml"
    THEN <<requests[k].url>> \o XmlUrlsSent(requests, k + 1)
    ELSE XmlUrlsSent(requests, k + 1)

\* the URLs the loop has recorded as tried, entry after entry
RECURSIVE UrlsTried(_, _)
UrlsTried(log, k) ==
    IF k > Len(log) THEN <<>>
    ELSE [j \in 1..Len(log[k].tried) |-> log[k].tried[j].url] \o UrlsTried(log, k + 1)

\* the entry of the index a record of the log is about
EntryOf(e) == phase2.toProcess[e.entry]

\* C13 as stated: an entry whose first URL failed has had its constructed
\* URL requested after it, and an entry is a fetch failure only after two
\* failed requests.
C13_AsStated ==
    Fetching =>
        \A k \in 1..Len(phase2.log) :
            /\ (phase2.log[k].tried # <<>> /\ ~phase2.log[k].tried[1].ok) => Len(phase2.log[k].tried) = 2
            /\ phase2.log[k].outcome = "fetch_failed" => Len(phase2.log[k].tried) = 2

\* the fallback rule for one record of the log
FallbackRule(e, entry, alt) ==
    /\ e.outcome # "skipped" => (e.tried # <<>> /\ e.tried[1].url = entry.xmlUrl)
    /\ (e.tried # <<>> /\ ~e.tried[1].ok /\ alt # entry.xmlUrl)
          => (Len(e.tried) = 2 /\ e.tried[2].url = alt)
    /\ e.outcome = "fetch_failed"
          => /\ \A j \in 1..Len(e.tried) : ~e.tried[j].ok
             /\ {entry.xmlUrl, alt} \subseteq {e.tried[j].url : j \in 1..Len(e.tried)}

\* C13 (corrected): the tried URLs are the XML requests sent; a failure of
\* the supplied URL is followed by a request of the constructed URL whenever
\* the two differ; an entry is a fetch failure only if every one of the two
\* URLs was requested and failed; and no failure ends the run.
C13_Fallback ==
    /\ pc # "aborted"
    /\ Fetching =>
          /\ XmlUrlsSent(net.requests, 1) = UrlsTried(phase2.log, 1)
          /\ \A k \in 1..Len(phase2.log) :
                FallbackRule(phase2.log[k], EntryOf(phase2.log[k]),
                             buildXmlUrl(EntryOf(phase2.log[k]).uri))

\* C13 witness: an entry failed after its supplied URL and then its
\* different constructed URL were requested, and the loop went on
C13_Witness ==
    /\ Fetching
    /\ \E k \in 1..Len(phase2.log) :
          /\ phase2.log[k].outcome = "fetch_failed"
          /\ Len(phase2.log[k].tried) = 2
          /\ phase2.log[k].tried[1].url # phase2.log[k].tried[2].url
          /\ k < Len(phase2.log)


\* C14: any two consecutive requests of a run, SPARQL queries and XML
\* fetches alike, are issued at least MIN_DELAY_MS apart.
C14_MinDelay ==
    net # Idle =>
        \A k \in 1..(Len(net.requests) - 1) :
            net.requests[k + 1].at - net.requests[k].at >= MIN_DELAY_MS

\* C14 witness: a SPARQL query followed by an XML fetch exactly MIN_DELAY_MS
\* later, and a fallback fetch that follows a fetch after a late timer
C14_Witness ==
    /\ net # Idle
    /\ \E k \in 1..(Len(net.requests) - 2) :
          /\ net.requests[k].kind = "sparql"
          /\ net.requests[k + 1].kind = "xml"
          /\ net.requests[k + 2].kind = "xml"
          /\ net.requests[k + 1].at = net.requests[k].at + MIN_DELAY_MS
          /\ net.requests[k + 2].at > net.requests[k + 1].at + MIN_DELAY_MS


\* the seed file of an entry is there
HasSeed(f, entry) == generateSeedId(entry) \in DOMAIN f.seeds

\* an iteration over an entry that is left alone: no request, no write,
\* one more skipped
LeftAlone ==
    /\ net' = net
    /\ files' = files
    /\ phase2'.skipped = phase2.skipped + 1
    /\ phase2'.processed = phase2.processed /\ phase2'.failed = phase2.failed

\* an iteration that requests the XML of the entry
Fetched(entry) ==
    /\ Len(net'.requests) > Len(net.requests)
    /\ net'.requests[Len(net.requests) + 1] .url = entry.xmlUrl
    /\ phase2'.skipped = phase2.skipped

\* the seed file of the entry is written anew by the iteration
Rewritten(id) ==
    /\ id \in DOMAIN files'.seeds
    /\ files'.seeds[id] # files.seeds[id]
    /\ phase2'.processed = phase2.processed + 1

\* the iteration over an entry whose seed file exists, as stated
IterationAsStated(entry) ==
    HasSeed(files, entry) =>
        IF flags.force THEN Fetched(entry) /\ Rewritten(generateSeedId(entry))
        ELSE LeftAlone

\* the iteration over an entry whose seed file exists
Iteration(entry) ==
    HasSeed(files, entry) =>
        IF flags.force
        THEN /\ Fetched(entry)
             /\ \/ Rewritten(generateSeedId(entry))
                \/ files' = files /\ phase2'.failed = phase2.failed + 1
        ELSE LeftAlone

\* C15 as stated: without --force an entry whose seed exists costs no
\* request, keeps its file and is counted as skipped; with --force it is
\* fetched and its file rewritten.
C15_AsStated ==
    [][(pc = "fetch" /\ phase2.i < Len(phase2.toProcess))
          => IterationAsStated(phase2.toProcess[phase2.i + 1])]_vars

\* C15 (corrected): as above, but with --force the file is rewritten when
\* the fetch and the parse succeed and is left as it was, the entry being
\* counted as failed, when they do not.
C15_Resumable ==
    [][(pc = "fetch" /\ phase2.i < Len(phase2.toProcess))
          => Iteration(phase2.toProcess[phase2.i + 1])]_vars

\* C15 witness: without --force an entry was skipped over its old seed file,
\* and the next entry was fetched and written
C15_Witness ==
    /\ Fetching /\ ~flags.force
    /\ \E k \in 1..(Len(phase2.log) - 1) :
          /\ phase2.log[k].outcome = "skipped"
          /\ files.seeds[generateSeedId(EntryOf(phase2.log[k]))] = OldSeed(generateSeedId(EntryOf(phase2.log[k])))
          /\ phase2.log[k + 1].outcome = "written"


\* the entries to process have distinct URIs
DistinctUris(entries) ==
    \A j, k \in 1..Len(entries) : entries[j].uri = entries[k].uri => j = k

\* C16: the entries of a run, which have distinct URIs, have distinct seed
\* ids, and a run that wrote every one of its entries leaves as many seed
\* files as it wrote entries.
C16_OneArtifactPerAct ==
    (Fetching /\ DistinctUris(phase2.toProcess)) =>
        /\ \A j, k \in 1..Len(phase2.toProcess) :
              generateSeedId(phase2.toProcess[j]) = generateSeedId(phase2.toProcess[k]) => j = k
        /\ (pc = "done" /\ phase2.processed = Len(phase2.toProcess))
              => Cardinality(DOMAIN files.seeds) >= Len(phase2.toProcess)


(***************************************************************************)
(* Claims about the whole run.                                             *)
(***************************************************************************)
\* the number of requests of a kind sent so far
Sent(n, kind) == Cardinality({k \in 1..Len(n.requests) : n.requests[k].kind = kind})

\* every discovery query of the run has been answered and the index holds
\* the entries discovered
DiscoveryComplete ==
    /\ \A t \in {"LOI", "RGD"} : QueryCount(t) = (Len(endpoint[t]) \div PAGE_SIZE) + 1
    /\ disc.docIdx = Len(DOC_TYPES) + 1
    /\ files.index = Some(DedupeByUri(disc.allEntries, 1))

\* what a step of the run may do, by the phase it is taken in
PhaseStep ==
    /\ Sent(net', "xml") > Sent(net, "xml")
          => /\ pc = "fetch" /\ pc' = "fetch"
             /\ IsSome(files.index)
             /\ disc # Idle => DiscoveryComplete
             /\ Sent(net', "sparql") = Sent(net, "sparql")
    /\ Sent(net', "sparql") > Sent(net, "sparql")
          => /\ pc = "discover"
             /\ Sent(net, "xml") = 0
             /\ files' = files
    /\ files'.seeds # files.seeds => pc = "fetch"
    /\ files'.index # files.index => (pc = "discover" /\ pc' = "fetch" /\ net' = net)
    /\ pc' = "aborted"
          => /\ pc = "discover"
             /\ Sent(net', "sparql") = Sent(net, "sparql") + 1
             /\ Sent(net', "xml") = 0
             /\ files' = files
    /\ pc # "aborted"

\* C18: XML requests are sent only in the fetch phase, after every discovery
\* query has been answered and the index written; a discovery query that
\* fails ends the run, which has then sent no XML request and written
\* neither the index nor a seed file, and does nothing more.
C18_Sequential == [][PhaseStep]_vars

\* C18 witness: the run was aborted by its second discovery query or a later
\* one, with no index on disk
C18_Witness ==
    /\ pc = "aborted"
    /\ Sent(net, "sparql") >= 2
    /\ Sent(net, "xml") = 0
    /\ files.index = None

(***************************************************************************)
(* build-db.ts: EU references extracted from a document's title and        *)
(* description.  The two patterns are matched as the regular expression    *)
(* engine matches them: leftmost start, greedy quantifiers, alternatives   *)
(* in order.                                                               *)
(***************************************************************************)
\* \b at position p: one of s[p-1], s[p] is a word character, the other not
WordBoundary(s, p) ==
    (p > 1 /\ p - 1 <= Len(s) /\ IsWordChar(s[p - 1])) # (p >= 1 /\ p <= Len(s) /\ IsWordChar(s[p]))

\* length of the run of [^\d] from position p
NonDigitRun(s, p) ==
    IF \E j \in p..Len(s) : IsDigit(s[j])
    THEN (CHOOSE j \in p..Len(s) : IsDigit(s[j]) /\ \A k \in p..(j - 1) : ~IsDigit(s[k])) - p
    ELSE IF p > Len(s) THEN 0 ELSE Len(s) - p + 1

\* the character at p, or "" past the end
CharAt(s, p) == IF p >= 1 /\ p <= Len(s) THEN s[p] ELSE ""

\* (UE|EU|CE|CEE|EG|EEG|EURATOM), in the order the alternatives are tried
Communities == <<<<"U","E">>, <<"E","U">>, <<"C","E">>, <<"C","E","E">>, <<"E","G">>, <<"E","E","G">>, <<"E","U","R","A","T","O","M">>>>

\* the length of the first alternative from the k-th on that matches at p and
\* is followed by \b (closing = "") or by the closing character; 0 if none
RECURSIVE CommunityLen(_, _, _, _)
CommunityLen(s, p, k, closing) ==
    IF k > Len(Communities) THEN 0
    ELSE IF /\ LitAt(s, p, Communities[k], TRUE)
            /\ IF closing = "" THEN WordBoundary(s, p + Len(Communities[k]))
               ELSE CharAt(s, p + Len(Communities[k])) = closing
    THEN Len(Communities[k])
    ELSE CommunityLen(s, p, k + 1, closing)

\* DIRECTIVE_PATTERN from the community on: q is where it starts, c its length
DirectiveMatch(s, i, p, py, q, c) ==
    IF c = 0 THEN None
    ELSE Some([end |-> q + c, text |-> SubSeq(s, i, q + c - 1),
               g1 |-> SubSeq(s, p, p + py - 1),
               g2 |-> SubSeq(s, p + py + 1, q - 2),
               g3 |-> SubSeq(s, q, q + c - 1)])

\* DIRECTIVE_PATTERN from (\d{1,4}) on: q is where the number starts, n the
\* length of the run of digits there
DirectiveNumber(s, i, p, py, q, n) ==
    IF n >= 1 /\ n <= 4 /\ CharAt(s, q + n) = "/"
    THEN DirectiveMatch(s, i, p, py, q + n + 1, CommunityLen(s, q + n + 1, 1, ""))
    ELSE None

\* DIRECTIVE_PATTERN from (\d{2,4}) on: p is where the year starts, py the
\* length of the run of digits there
DirectiveYear(s, i, p, py) ==
    IF py >= 2 /\ py <= 4 /\ CharAt(s, p + py) = "/"
    THEN DirectiveNumber(s, i, p, py, p + py + 1, DigitRun(s, p + py + 1))
    ELSE None

\* DIRECTIVE_PATTERN matched with its start at i: None, or the end of the
\* match, its text and its three groups
DirectiveAt(s, i) ==
    IF /\ WordBoundary(s, i)
       /\ LitAt(s, i, <<"d","i","r","e","c","t","i","v","e">>, TRUE)
       /\ WordBoundary(s, i + 9)
       /\ NonDigitRun(s, i + 9) <= 48
    THEN DirectiveYear(s, i, i + 9 + NonDigitRun(s, i + 9), DigitRun(s, i + 9 + NonDigitRun(s, i + 9)))
    ELSE None

\* REGULATION_PATTERN from (\d{2,4})\b on
RegulationMatch(s, i, pc0, c, q, n1, n2) ==
    IF n2 >= 2 /\ n2 <= 4 /\ WordBoundary(s, q + n1 + 1 + n2)
    THEN Some([end |-> q + n1 + 1 + n2, text |-> SubSeq(s, i, q + n1 + n2),
               g1 |-> SubSeq(s, pc0, pc0 + c - 1),
               g2 |-> SubSeq(s, q, q + n1 - 1),
               g3 |-> SubSeq(s, q + n1 + 1, q + n1 + n2)])
    ELSE None

\* REGULATION_PATTERN from (\d{1,4}) on: q is where the first number starts
RegulationNumbers(s, i, pc0, c, q, n1) ==
    IF n1 >= 1 /\ n1 <= 4 /\ CharAt(s, q + n1) = "/"
    THEN RegulationMatch(s, i, pc0, c, q, n1, DigitRun(s, q + n1 + 1))
    ELSE None

\* REGULATION_PATTERN from (?:n[°o]\s*)? on, after \s*
RegulationNumero(s, i, pc0, c, q) ==
    IF UpperChar(CharAt(s, q)) = "N" /\ UpperChar(CharAt(s, q + 1)) \in {"°", "O"}
    THEN RegulationNumbers(s, i, pc0, c, q + 2 + SpaceRun(s, q + 2),
                           DigitRun(s, q + 2 + SpaceRun(s, q + 2)))
    ELSE RegulationNumbers(s, i, pc0, c, q, DigitRun(s, q))

\* REGULATION_PATTERN from \( on: p is where the parenthesis is looked for
RegulationTail(s, i, p, c) ==
    IF CharAt(s, p) = "(" /\ c > 0
    THEN RegulationNumero(s, i, p + 1, c, p + c + 2 + SpaceRun(s, p + c + 2))
    ELSE None

\* [^\d]{0,48} of REGULATION_PATTERN gives back one character at a time
RECURSIVE RegulationGap(_, _, _)
RegulationGap(s, i, g) ==
    IF g < 0 THEN None
    ELSE IF IsSome(RegulationTail(s, i, i + 9 + g, CommunityLen(s, i + 10 + g, 1, ")")))
    THEN RegulationTail(s, i, i + 9 + g, CommunityLen(s, i + 10 + g, 1, ")"))
    ELSE RegulationGap(s, i, g - 1)

Min(a, b) == IF a < b THEN a ELSE b

\* REGULATION_PATTERN matched with its start at i
RegulationAt(s, i) ==
    IF /\ WordBoundary(s, i)
       /\ LitAt(s, i, <<"r">>, TRUE)
       /\ UpperChar(CharAt(s, i + 1)) \in {"E", "È"}
       /\ LitAt(s, i + 2, <<"g","l","e","m","e","n","t">>, TRUE)
       /\ WordBoundary(s, i + 9)
    THEN RegulationGap(s, i, Min(48, NonDigitRun(s, i + 9)))
    ELSE None

\* the pattern matched with its start at i
PatternAt(s, i, directive) == IF directive THEN DirectiveAt(s, i) ELSE RegulationAt(s, i)

\* text.matchAll(pattern): the matches from position i on, leftmost first,
\* each search starting where the match before it ended
RECURSIVE MatchesFrom(_, _, _)
MatchesAfter(s, directive, m) == <<m>> \o MatchesFrom(s, m.end, directive)

MatchesFrom(s, i, directive) ==
    IF \A j \in i..Len(s) : ~IsSome(PatternAt(s, j, directive)) THEN <<>>
    ELSE MatchesAfter(s, directive,
                      Val(PatternAt(s, CHOOSE j \in i..Len(s) :
                                           /\ IsSome(PatternAt(s, j, directive))
                                           /\ \A k \in i..(j - 1) : ~IsSome(PatternAt(s, k, directive)),
                                    directive)))

\* normalizeCommunity
normalizeCommunity(raw) ==
    IF ToUpper(raw) \in {<<"U","E">>, <<"E","U">>} THEN <<"E","U">>
    ELSE IF ToUpper(raw) = <<"E","G">> THEN <<"E","G">>
    ELSE IF ToUpper(raw) = <<"E","E","G">> THEN <<"E","E","G">>
    ELSE IF ToUpper(raw) = <<"E","U","R","A","T","O","M">> THEN <<"E","u","r","a","t","o","m">>
    ELSE IF ToUpper(raw) = <<"C","E","E">> THEN <<"C","E","E">>
    ELSE <<"C","E">>

\* parseEuYear without its range test on tokens of three and four digits
parseEuYearAnyYear(raw) ==
    IF Len(raw) = 2
    THEN Some(IF ParseInt(raw) >= 57 THEN 1900 + ParseInt(raw) ELSE 2000 + ParseInt(raw))
    ELSE Some(ParseInt(raw))

\* parseEuYear on a string of digits: None is null
parseEuYear(raw) ==
    IF Len(raw) = 2
    THEN Some(IF ParseInt(raw) >= 57 THEN 1900 + ParseInt(raw) ELSE 2000 + ParseInt(raw))
    ELSE IF ParseInt(raw) < 1957 \/ ParseInt(raw) > 2100 THEN None
    ELSE Some(ParseInt(raw))

YearAndNumber(year, number) == Some([year |-> Val(year), number |-> number])

\* inferRegulationYearAndNumber with the order of the legacy communities for
\* every community
inferSecondFirst(community, first, second) ==
    IF ParseInt(first) <= 0 \/ ParseInt(second) <= 0 THEN None
    ELSE IF TruthyNum(parseEuYear(second)) THEN YearAndNumber(parseEuYear(second), ParseInt(first))
    ELSE IF TruthyNum(parseEuYear(first)) THEN YearAndNumber(parseEuYear(first), ParseInt(second))
    ELSE None

\* inferRegulationYearAndNumber: None is null
inferRegulationYearAndNumber(community, first, second) ==
    IF ParseInt(first) <= 0 \/ ParseInt(second) <= 0 THEN None
    ELSE IF community \in {<<"C","E">>, <<"C","E","E">>, <<"E","G">>, <<"E","E","G">>, <<"E","u","r","a","t","o","m">>}
    THEN IF TruthyNum(parseEuYear(second)) THEN YearAndNumber(parseEuYear(second), ParseInt(first))
         ELSE IF TruthyNum(parseEuYear(first)) THEN YearAndNumber(parseEuYear(first), ParseInt(second))
         ELSE None
    ELSE IF TruthyNum(parseEuYear(first)) THEN YearAndNumber(parseEuYear(first), ParseInt(second))
         ELSE IF TruthyNum(parseEuYear(second)) THEN YearAndNumber(parseEuYear(second), ParseInt(first))
         ELSE None

\* normalizeCitation
normalizeCitation(text) == Trim(CollapseSpaces(text))

\* one extracted reference
EuReference(type, year, number, community, text) ==
    [eu_document_id |-> type \o <<":">> \o NumToStr(year) \o <<"/">> \o NumToStr(number),
     type |-> type, year |-> year, number |-> number, community |-> community,
     full_citation |-> normalizeCitation(text)]

\* the loop over the matches of DIRECTIVE_PATTERN
RECURSIVE DirectiveRefs(_, _)
DirectiveRefs(ms, k) ==
    IF k > Len(ms) THEN <<>>
    ELSE IF ~TruthyNum(parseEuYear(ms[k].g1)) \/ ParseInt(ms[k].g2) <= 0
    THEN DirectiveRefs(ms, k + 1)
    ELSE <<EuReference(<<"d","i","r","e","c","t","i","v","e">>, Val(parseEuYear(ms[k].g1)), ParseInt(ms[k].g2),
                       normalizeCommunity(ms[k].g3), ms[k].text)>> \o DirectiveRefs(ms, k + 1)

\* the loop over the matches of REGULATION_PATTERN
RECURSIVE RegulationRefs(_, _)
RegulationRef(m, community, normalized) ==
    IF ~IsSome(normalized) THEN <<>>
    ELSE <<EuReference(<<"r","e","g","u","l","a","t","i","o","n">>, Val(normalized).year, Val(normalized).number, community, m.text)>>

RegulationRefs(ms, k) ==
    IF k > Len(ms) THEN <<>>
    ELSE RegulationRef(ms[k], normalizeCommunity(ms[k].g1),
                       inferRegulationYearAndNumber(normalizeCommunity(ms[k].g1), ms[k].g2, ms[k].g3))
         \o RegulationRefs(ms, k + 1)

\* the Map keyed by eu_document_id: the first reference of an id is kept
RECURSIVE UniqueById(_, _, _)
UniqueById(refs, k, kept) ==
    IF k > Len(refs) THEN kept
    ELSE IF \E j \in 1..Len(kept) : kept[j].eu_document_id = refs[k].eu_document_id
    THEN UniqueById(refs, k + 1, kept)
    ELSE UniqueById(refs, k + 1, Append(kept, refs[k]))

extractEUReferencesFromText(text) ==
    UniqueById(DirectiveRefs(MatchesFrom(text, 1, TRUE), 1)
                 \o RegulationRefs(MatchesFrom(text, 1, FALSE), 1), 1, <<>>)

(***************************************************************************)
(* build-db.ts: buildDatabase.  The store is the rows of each table, in    *)
(* the order of insertion.  A batch is run statement by statement on a     *)
(* working copy: st.store, st.n the statements run, st.failed whether one  *)
(* threw.                                                                  *)
(***************************************************************************)
\* the store after db.exec(SCHEMA)
EmptyStore ==
    [legal_documents |-> <<>>, legal_provisions |-> <<>>, definitions |-> <<>>,
     eu_documents |-> <<>>, eu_references |-> <<>>, db_metadata |-> <<>>]

BeginBatch(store) == [store |-> store, n |-> 0, failed |-> FALSE]

\* the batch leaves what it wrote in the store when a statement throws
TransactionNoRollback(before, st) == st.store

\* db.transaction(fn)(): COMMIT when fn returns, ROLLBACK when it throws
Transaction(before, st) == IF st.failed THEN before ELSE st.store

\* INSERT OR REPLACE: the row in conflict is deleted and the new one inserted
RECURSIVE WithoutId(_, _, _)
WithoutId(rows, id, k) ==
    IF k > Len(rows) THEN <<>>
    ELSE IF rows[k].id = id THEN WithoutId(rows, id, k + 1)
    ELSE <<rows[k]>> \o WithoutId(rows, id, k + 1)

InsertOrReplace(rows, row, conflict) ==
    IF conflict THEN Append(WithoutId(rows, row.id, 1), row) ELSE Append(rows, row)

\* INSERT OR IGNORE: a row in conflict is not inserted
InsertOrIgnore(rows, row, conflict) == IF conflict THEN rows ELSE Append(rows, row)

\* stmt.run(..) of an INSERT inside a batch: it throws when the insert breaks
\* a constraint (violates), or at the fault-th statement of the batch, which
\* the environment fails (fault = 0: no statement is)
Insert(st, fault, table, row, violates) ==
    IF st.failed THEN st
    ELSE IF st.n + 1 = fault \/ violates THEN [st EXCEPT !.n = @ + 1, !.failed = TRUE]
    ELSE [st EXCEPT !.n = @ + 1, !.store[table] = Append(@, row)]

\* stmt.run(..) of an INSERT OR IGNORE inside a batch
InsertIgnoring(st, fault, table, row, conflict, violates) ==
    IF st.failed THEN st
    ELSE IF st.n + 1 = fault \/ violates THEN [st EXCEPT !.n = @ + 1, !.failed = TRUE]
    ELSE [st EXCEPT !.n = @ + 1, !.store[table] = InsertOrIgnore(@, row, conflict)]

HasId(rows, id) == \E k \in 1..Len(rows) : rows[k].id = id

\* insertDoc.run: id is the PRIMARY KEY, type and status are CHECKed
InsertDoc(st, fault, seed) ==
    Insert(st, fault, "legal_documents",
           [id |-> seed.id, type |-> seed.type, title |-> seed.title, status |-> seed.status,
            description |-> seed.description],
           \/ HasId(st.store.legal_documents, seed.id)
           \/ seed.type \notin {"statute", "bill", "case_law"}
           \/ seed.status \notin {"in_force", "amended", "repealed", "not_yet_in_force"})

\* for (const prov of deduped) insertProvision.run: UNIQUE(document_id, provision_ref)
RECURSIVE InsertProvisionsOf(_, _, _, _, _)
InsertProvisionsOf(st, fault, id, list, k) ==
    IF k > Len(list) THEN st
    ELSE InsertProvisionsOf(
            Insert(st, fault, "legal_provisions",
                   [document_id |-> id, provision_ref |-> list[k].provision_ref,
                    title |-> list[k].title, content |-> list[k].content],
                   \E j \in 1..Len(st.store.legal_provisions) :
                       /\ st.store.legal_provisions[j].document_id = id
                       /\ st.store.legal_provisions[j].provision_ref = list[k].provision_ref),
            fault, id, list, k + 1)

\* for (const def of seed.definitions ?? []) insertDefinition.run: UNIQUE(document_id, term)
RECURSIVE InsertDefinitionsOf(_, _, _, _, _)
InsertDefinitionsOf(st, fault, id, list, k) ==
    IF k > Len(list) THEN st
    ELSE InsertDefinitionsOf(
            Insert(st, fault, "definitions",
                   [document_id |-> id, term |-> list[k].term, definition |-> list[k].definition],
                   \E j \in 1..Len(st.store.definitions) :
                       /\ st.store.definitions[j].document_id = id
                       /\ st.store.definitions[j].term = list[k].term),
            fault, id, list, k + 1)

\* the body of the loop of loadAll for one seed file
LoadSeed(st, fault, seed) ==
    InsertDefinitionsOf(
        InsertProvisionsOf(InsertDoc(st, fault, seed), fault, seed.id,
                           dedupeProvisions(seed.provisions).deduped, 1),
        fault, seed.id, seed.definitions, 1)

\* for (const file of seedFiles) of loadAll
RECURSIVE LoadSeeds(_, _, _, _)
LoadSeeds(st, fault, seeds, k) ==
    IF k > Len(seeds) \/ st.failed THEN st
    ELSE LoadSeeds(LoadSeed(st, fault, seeds[k]), fault, seeds, k + 1)

\* SELECT id, title, description FROM legal_documents ORDER BY id
RECURSIVE InsertById(_, _, _)
InsertById(sorted, row, k) ==
    IF k > Len(sorted) THEN Append(sorted, row)
    ELSE IF StrLess(row.id, sorted[k].id)
    THEN SubSeq(sorted, 1, k - 1) \o <<row>> \o SubSeq(sorted, k, Len(sorted))
    ELSE InsertById(sorted, row, k + 1)

RECURSIVE OrderById(_, _)
OrderById(rows, k) ==
    IF k = 0 THEN <<>> ELSE InsertById(OrderById(rows, k - 1), rows[k], 1)

\* String.prototype.includes
Includes(s, lit) == \E p \in 1..Len(s) : LitAt(s, p, lit, FALSE)

\* [doc.title, doc.description ?? ''].join('\n')
SearchText(doc) == doc.title \o <<"\n">> \o (IF IsSome(doc.description) THEN Val(doc.description) ELSE <<>>)

\* inferEuReferenceType(text).referenceType
inferEuReferenceType(text) ==
    IF \E lit \in {<<"t","r","a","n","s","p","o","s","i","t","i","o","n">>, <<"t","r","a","n","s","p","o","s","e">>, <<"m","i","s","e"," ","e","n"," ","o","e","u","v","r","e">>,
                   <<"m","e","t","t","a","n","t"," ","e","n"," ","o","e","u","v","r","e">>, <<"m","e","t"," ","e","n"," ","o","e","u","v","r","e">>, <<"i","m","p","l","e","m","e","n","t","s">>} :
           Includes(ToLower(text), lit)
    THEN "implements" ELSE "references"

\* EU_DOC_SHORT_NAMES[id] ?? null
EU_DOC_SHORT_NAMES(id) ==
    IF id = <<"r","e","g","u","l","a","t","i","o","n",":","2","0","1","6","/","6","7","9">> THEN Some(<<"G","D","P","R">>)
    ELSE IF id = <<"d","i","r","e","c","t","i","v","e",":","1","9","9","5","/","4","6">> THEN Some(<<"D","a","t","a"," ","P","r","o","t","e","c","t","i","o","n"," ","D","i","r","e","c","t","i","v","e">>)
    ELSE IF id = <<"d","i","r","e","c","t","i","v","e",":","2","0","0","2","/","5","8">> THEN Some(<<"e","P","r","i","v","a","c","y"," ","D","i","r","e","c","t","i","v","e">>)
    ELSE IF id = <<"d","i","r","e","c","t","i","v","e",":","2","0","1","6","/","6","8","0">> THEN Some(<<"L","a","w"," ","E","n","f","o","r","c","e","m","e","n","t"," ","D","i","r","e","c","t","i","v","e">>)
    ELSE IF id = <<"d","i","r","e","c","t","i","v","e",":","2","0","1","6","/","1","1","4","8">> THEN Some(<<"N","I","S"," ","D","i","r","e","c","t","i","v","e">>)
    ELSE IF id = <<"d","i","r","e","c","t","i","v","e",":","2","0","2","2","/","2","5","5","5">> THEN Some(<<"N","I","S","2"," ","D","i","r","e","c","t","i","v","e">>)
    ELSE None

\* the row insertEuDocument.run is given for a reference found in a document
EuDocumentRow(ref, docId) ==
    [id |-> ref.eu_document_id, type |-> ref.type, year |-> ref.year, number |-> ref.number,
     community |-> ref.community,
     title |-> (IF ref.type = <<"d","i","r","e","c","t","i","v","e">> THEN <<"D","i","r","e","c","t","i","v","e"," ">> ELSE <<"R","e","g","u","l","a","t","i","o","n"," ">>)
                 \o NumToStr(ref.year) \o <<"/">> \o NumToStr(ref.number) \o <<"/">> \o ref.community,
     short_name |-> EU_DOC_SHORT_NAMES(ref.eu_document_id),
     description |-> <<"A","u","t","o","-","e","x","t","r","a","c","t","e","d"," ","f","r","o","m"," ","L","u","x","e","m","b","o","u","r","g"," ","l","e","g","i","s","l","a","t","i","o","n"," ","m","e","t","a","d","a","t","a"," ","(">> \o docId \o <<")",".">>,
     in_force |-> 1]

\* the CHECK constraints of eu_documents
EuDocumentChecks(row) ==
    /\ row.type \in {<<"d","i","r","e","c","t","i","v","e">>, <<"r","e","g","u","l","a","t","i","o","n">>}
    /\ row.year >= 1957 /\ row.year <= 2100
    /\ row.number > 0
    /\ row.community \in {<<"E","U">>, <<"E","G">>, <<"E","E","G">>, <<"E","u","r","a","t","o","m">>, <<"C","E">>, <<"C","E","E">>}

\* the row insertEuReference.run is given (last_verified, the time of the
\* build, is left out)
EuReferenceRow(doc, ref, refType) ==
    [source_type |-> "document", source_id |-> doc.id, document_id |-> doc.id,
     provision_id |-> None, eu_document_id |-> ref.eu_document_id, eu_article |-> None,
     reference_type |-> refType, reference_context |-> doc.title,
     full_citation |-> ref.full_citation,
     is_primary_implementation |-> IF refType = "implements" THEN 1 ELSE 0,
     implementation_status |-> "unknown"]

\* insertEuReference.run: UNIQUE(source_id, eu_document_id, eu_article) never
\* conflicts, eu_article being NULL; the foreign keys are enforced and are
\* not subject to OR IGNORE
InsertEuReference(st, fault, doc, ref, refType) ==
    InsertIgnoring(st, fault, "eu_references", EuReferenceRow(doc, ref, refType),
                   \E k \in 1..Len(st.store.eu_references) :
                       /\ st.store.eu_references[k].source_id = doc.id
                       /\ st.store.eu_references[k].eu_document_id = ref.eu_document_id
                       /\ IsSome(st.store.eu_references[k].eu_article),
                   \/ ~HasId(st.store.eu_documents, ref.eu_document_id)
                   \/ ~HasId(st.store.legal_documents, doc.id))

\* insertEuDocument.run: a row whose id is there, or that fails a CHECK, is ignored
InsertEuDocument(st, fault, doc, ref) ==
    InsertIgnoring(st, fault, "eu_documents", EuDocumentRow(ref, doc.id),
                   \/ HasId(st.store.eu_documents, ref.eu_document_id)
                   \/ ~EuDocumentChecks(EuDocumentRow(ref, doc.id)),
                   FALSE)

\* for (const ref of refs) of populateEUData; seen is seenReferences
RECURSIVE PopulateRefs(_, _, _, _, _, _)
PopulateRef(st, fault, doc, refs, k, seen) ==
    IF refs[k].eu_document_id \in seen
    THEN PopulateRefs(st, fault, doc, refs, k + 1, seen)
    ELSE PopulateRefs(InsertEuReference(st, fault, doc, refs[k], inferEuReferenceType(SearchText(doc))),
                      fault, doc, refs, k + 1, seen \cup {refs[k].eu_document_id})

PopulateRefs(st, fault, doc, refs, k, seen) ==
    IF k > Len(refs) \/ st.failed THEN st
    ELSE PopulateRef(InsertEuDocument(st, fault, doc, refs[k]), fault, doc, refs, k, seen)

\* for (const doc of docs) of populateEUData
RECURSIVE PopulateDocs(_, _, _, _)
PopulateDocs(st, fault, docs, k) ==
    IF k > Len(docs) \/ st.failed THEN st
    ELSE PopulateDocs(PopulateRefs(st, fault, docs[k], extractEUReferencesFromText(SearchText(docs[k])), 1, {}),
                      fault, docs, k + 1)

\* largest number of the statement of a batch the environment may fail
MaxFault == 3

\* buildDatabase with no seed file: the database is closed with its empty schema
NoSeeds ==
    /\ pc = "build"
    /\ seedFiles = <<>>
    /\ pc' = "done"
    /\ UNCHANGED <<engineVars, db, seedFiles, ingestVars>>

LoadAllEnds(st) ==
    /\ db' = Transaction(db, st)
    /\ pc' = IF st.failed THEN "load_failed" ELSE "loaded"

\* loadAll(): an exception leaves buildDatabase
LoadAll ==
    /\ pc = "build"
    /\ seedFiles # <<>>
    /\ \E fault \in 0..MaxFault : LoadAllEnds(LoadSeeds(BeginBatch(db), fault, seedFiles, 1))
    /\ UNCHANGED <<engineVars, seedFiles, ingestVars>>

PopulateEnds(st) ==
    /\ db' = Transaction(db, st)
    /\ pc' = IF st.failed THEN "eu_failed" ELSE "populated"

\* populateEUData()
PopulateEUData ==
    /\ pc = "loaded"
    /\ \E fault \in 0..MaxFault :
          PopulateEnds(PopulateDocs(BeginBatch(db), fault,
                                    OrderById(db.legal_documents, Len(db.legal_documents)), 1))
    /\ UNCHANGED <<engineVars, seedFiles, ingestVars>>

\* writeMeta(): the value of built_at is the time of the build
WriteMeta ==
    /\ pc = "populated"
    /\ db' = [db EXCEPT !.db_metadata =
                 <<[key |-> <<"t","i","e","r">>, value |-> Some(<<"f","r","e","e">>)],
                   [key |-> <<"s","c","h","e","m","a","_","v","e","r","s","i","o","n">>, value |-> Some(<<"2">>)],
                   [key |-> <<"b","u","i","l","t","_","a","t">>, value |-> None],
                   [key |-> <<"b","u","i","l","d","e","r">>, value |-> Some(<<"b","u","i","l","d","-","d","b",".","t","s">>)],
                   [key |-> <<"j","u","r","i","s","d","i","c","t","i","o","n">>, value |-> Some(<<"L","U">>)]>>]
    /\ pc' = "done"
    /\ UNCHANGED <<engineVars, seedFiles, ingestVars>>

NextBuild == NoSeeds \/ LoadAll \/ PopulateEUData \/ WriteMeta

\* largest number of seed files
MaxSeeds == 2

\* what the seed files of the model hold
BuildTitles ==
    {<<"L","o","i"," ","t","r","a","n","s","p","o","s","a","n","t"," ","l","a"," ","d","i","r","e","c","t","i","v","e"," ","2","0","1","6","/","6","8","0","/","U","E">>,
     <<"L","o","i",":"," ","d","i","r","e","c","t","i","v","e"," ","(","U","E",")"," ","2","0","1","6","/","6","8","0","/","C","E",","," ","r","è","g","l","e","m","e","n","t"," ","(","U","E",")"," ","2","0","1","6","/","6","7","9">>,
     <<"L","o","i"," ","d","u"," ","5"," ","m","a","i">>}

BuildExtras ==
    {[description |-> None, provisions |-> <<>>,
      definitions |-> <<[term |-> <<"t">>, definition |-> <<"x">>], [term |-> <<"u">>, definition |-> <<"y">>]>>],
     [description |-> Some(<<"R","è","g","l","e","m","e","n","t"," ","(","C","E",")"," ","n","°"," ","4","5","/","2","0","0","1",";"," ","d","i","r","e","c","t","i","v","e"," ","2","0","1","6","/","6","8","0","/","U","E">>),
      provisions |-> <<[provision_ref |-> <<"a">>, title |-> None, content |-> <<"x","y">>]>>,
      definitions |-> <<>>],
     [description |-> Some(<<"m","i","s","e"," ","e","n"," ","o","e","u","v","r","e">>),
      provisions |-> <<[provision_ref |-> <<"a">>, title |-> None, content |-> <<"x","y">>],
                       [provision_ref |-> <<"a">>, title |-> None, content |-> <<"x"," ","y">>]>>,
      definitions |-> <<[term |-> <<"t">>, definition |-> <<"x">>], [term |-> <<"t">>, definition |-> <<"y">>]>>]}

BuildSeeds ==
    {[id |-> id, type |-> "statute", status |-> "in_force", title |-> title,
      description |-> x.description, provisions |-> x.provisions, definitions |-> x.definitions] :
        id \in {<<"l","o","i","-","2","0","1","8","-","0","8","-","0","1","-","a","6","8","6">>, <<"l","o","i","-","2","0","0","2","-","0","8","-","0","2","-","a","9","1">>}, title \in BuildTitles, x \in BuildExtras}

BuildInit ==
    /\ pc = "build"
    /\ seedFiles \in UNION {[1..n -> BuildSeeds] : n \in 0..MaxSeeds}
    /\ db = EmptyStore
    /\ flags = Idle /\ endpoint = Idle /\ files = Idle
    /\ disc = Idle /\ phase2 = Idle /\ net = Idle
    /\ citation = Idle /\ parsed = Idle /\ formatted = Idle
    /\ result = Idle /\ provisions = Idle /\ dedup = Idle /\ dedup2 = Idle

SpecBuild == BuildInit /\ [][NextBuild]_vars


(***************************************************************************)
(* Claims about the database build.                                        *)
(***************************************************************************)
\* the rows loadAll inserts when no statement fails
LoadedStore == LoadSeeds(BeginBatch(EmptyStore), 0, seedFiles, 1).store

\* C19: after a failure in loadAll the store holds no document, provision
\* or definition row; after a failure in populateEUData it holds no EU
\* document and no EU reference row, and every row loadAll inserted.
C19_AtomicBatches ==
    /\ pc = "load_failed"
          => /\ db.legal_documents = <<>>
             /\ db.legal_provisions = <<>>
             /\ db.definitions = <<>>
    /\ pc = "eu_failed"
          => /\ db.eu_documents = <<>>
             /\ db.eu_references = <<>>
             /\ Len(db.legal_documents) = Len(seedFiles)
             /\ db = LoadedStore

\* C19 witness: the second seed file has the id of the first, whose rows had
\* been inserted when the batch failed
C19_Witness ==
    /\ pc = "load_failed"
    /\ Len(seedFiles) = 2
    /\ seedFiles[1].id = seedFiles[2].id
    /\ seedFiles[1].definitions # <<>>
    /\ ~LoadSeed(BeginBatch(EmptyStore), 0, seedFiles[1]).failed

\* the documents as populateEUData reads them
StoredDocs == OrderById(db.legal_documents, Len(db.legal_documents))

\* the references extracted from the k-th stored document
RefsOf(k) == extractEUReferencesFromText(SearchText(StoredDocs[k]))

\* the ids extracted from the stored documents
ExtractedIds == UNION {{RefsOf(k)[j].eu_document_id : j \in 1..Len(RefsOf(k))} : k \in 1..Len(StoredDocs)}

\* the k-th stored document cites the id
Cites(k, id) == \E j \in 1..Len(RefsOf(k)) : RefsOf(k)[j].eu_document_id = id

\* the row of an id as its first citation gives it: the first document, in
\* the order of their ids, that cites it
FirstCitationRow(id, k) ==
    EuDocumentRow(RefsOf(k)[CHOOSE j \in 1..Len(RefsOf(k)) : RefsOf(k)[j].eu_document_id = id],
                  StoredDocs[k].id)

FirstCiting(id) ==
    CHOOSE k \in 1..Len(StoredDocs) : Cites(k, id) /\ \A j \in 1..(k - 1) : ~Cites(j, id)

\* C20: after populateEUData eu_documents holds one row for each id
\* extracted from the stored documents and no other row, each row is the one
\* the first citation of its id inserted, and eu_references holds at most
\* one row for a document and an id.
C20_OneRowPerId ==
    pc \in {"populated", "done"} =>
        /\ {db.eu_documents[k].id : k \in 1..Len(db.eu_documents)} = ExtractedIds
        /\ Len(db.eu_documents) = Cardinality(ExtractedIds)
        /\ \A k \in 1..Len(db.eu_documents) :
              db.eu_documents[k] = FirstCitationRow(db.eu_documents[k].id, FirstCiting(db.eu_documents[k].id))
        /\ \A j, k \in 1..Len(db.eu_references) :
              (/\ db.eu_references[j].source_id = db.eu_references[k].source_id
               /\ db.eu_references[j].eu_document_id = db.eu_references[k].eu_document_id) => j = k

\* C20 witness: two stored documents cite one directive, under two
\* communities, and it has one row
C20_Witness ==
    /\ pc = "populated"
    /\ Len(db.legal_documents) = 2
    /\ \E j \in 1..Len(RefsOf(1)), k \in 1..Len(RefsOf(2)) :
          /\ RefsOf(1)[j].eu_document_id = RefsOf(2)[k].eu_document_id
          /\ RefsOf(1)[j].community # RefsOf(2)[k].community
    /\ Len(db.eu_references) > Len(db.eu_documents)


(***************************************************************************)
(* extractEUReferencesFromText on its own.                                 *)
(***************************************************************************)
\* the texts the extractor is run on: one directive citation, one regulation
\* citation, or several citations of which two name one document
DirectiveTexts ==
    {<<"d","i","r","e","c","t","i","v","e"," ">> \o y \o <<"/">> \o n \o <<"/">> \o c :
        y \in {<<"5","6">>, <<"5","7">>, <<"0","0">>, <<"1","2","3">>, <<"1","9","5","6">>, <<"1","9","5","7">>, <<"2","1","0","0">>, <<"2","1","0","1">>},
        n \in {<<"0">>, <<"7">>, <<"6","8","0">>},
        c \in {<<"U","E">>, <<"C","E">>, <<"e","u","r","a","t","o","m">>}}

RegulationTexts ==
    {<<"r","è","g","l","e","m","e","n","t"," ","(">> \o c \o <<")"," ">> \o a \o <<"/">> \o b :
        c \in {<<"U","E">>, <<"C","E">>},
        a \in {<<"0">>, <<"4","5">>, <<"2","0","1","6">>, <<"1","9","5","6">>},
        b \in {<<"0","0">>, <<"5","8">>, <<"6","7","9">>, <<"2","0","0","1">>, <<"2","1","0","1">>}}

SeveralTexts ==
    {<<"d","i","r","e","c","t","i","v","e"," ","2","0","1","6","/","6","8","0","/","U","E"," ","e","t"," ","d","i","r","e","c","t","i","v","e"," ","2","0","1","6","/","6","8","0","/","C","E">>,
     <<"D","i","r","e","c","t","i","v","e"," ","9","5","/","4","6","/","C","E",","," ","r","è","g","l","e","m","e","n","t"," ","(","C","E",")"," ","n","°"," ","4","5","/","2","0","0","1"," ","e","t"," ","d","i","r","e","c","t","i","v","e"," ","1","9","9","5","/","4","6","/","C","E","E">>,
     <<"r","è","g","l","e","m","e","n","t"," ","(","U","E",")"," ","2","0","1","6","/","6","7","9"," ","e","t"," ","R","è","g","l","e","m","e","n","t"," ","(","C","E",")"," ","N","o"," ","6","7","9","/","2","0","1","6">>,
     <<"d","i","r","e","c","t","i","v","e","s"," ","2","0","0","2","/","5","8","/","C","E">>}

ExtractInit ==
    /\ pc = "text"
    /\ citation \in DirectiveTexts \cup RegulationTexts \cup SeveralTexts
    /\ parsed = Idle /\ result = Idle /\ formatted = Idle /\ db = Idle
    /\ provisions = Idle /\ dedup = Idle /\ dedup2 = Idle
    /\ IngestIdle

\* extractEUReferencesFromText(text)
Extract ==
    /\ pc = "text"
    /\ result' = extractEUReferencesFromText(citation)
    /\ pc' = "extracted"
    /\ UNCHANGED <<citation, parsed, formatted, db, provisions, dedup, dedup2, ingestVars, seedFiles>>

NextExtract == Extract

SpecExtract == ExtractInit /\ [][NextExtract]_vars

\* the year a token of a citation stands for: two digits are read with the
\* pivot 57
PivotYear(token) ==
    IF Len(token) = 2 THEN (IF ParseInt(token) >= 57 THEN 1900 + ParseInt(token) ELSE 2000 + ParseInt(token))
    ELSE ParseInt(token)

\* the digits of a citation that precede position p, back to a non-digit
RECURSIVE TokenBefore(_, _)
TokenBefore(s, p) ==
    IF p >= 1 /\ IsDigit(s[p]) THEN Append(TokenBefore(s, p - 1), s[p]) ELSE <<>>

\* a reference is well formed
WellFormed(ref) ==
    /\ ref.year >= 1957 /\ ref.year <= 2100
    /\ ref.number >= 1
    /\ ref.type \in {<<"d","i","r","e","c","t","i","v","e">>, <<"r","e","g","u","l","a","t","i","o","n">>}
    /\ ref.eu_document_id = ref.type \o <<":">> \o NumToStr(ref.year) \o <<"/">> \o NumToStr(ref.number)

\* the year of a directive reference is the year its citation's first token
\* stands for
DirectiveYearRead(ref) ==
    ref.type = <<"d","i","r","e","c","t","i","v","e">> =>
        \E p \in 1..Len(ref.full_citation) :
            /\ ref.full_citation[p] = "/"
            /\ \A q \in 1..(p - 1) : ref.full_citation[q] # "/"
            /\ PivotYear(TokenBefore(ref.full_citation, p - 1)) = ref.year

\* C21: every reference extracted has a year from 1957 to 2100 (a token of
\* two digits read with the pivot 57), a number of at least 1 and the id
\* '<type>:<year>/<number>', and no two references of a text have one id.
C21_WellFormedRefs ==
    pc = "extracted" =>
        /\ \A k \in 1..Len(result) : WellFormed(result[k]) /\ DirectiveYearRead(result[k])
        /\ \A j, k \in 1..Len(result) :
              result[j].eu_document_id = result[k].eu_document_id => j = k

\* C21 witness: of the three citations of a text the one with the two-digit
\* year 95 gave directive:1995/46, and the second citation of that id was
\* dropped
C21_Witness ==
    /\ pc = "extracted"
    /\ Len(MatchesFrom(citation, 1, TRUE)) = 2
    /\ Len(result) = 2
    /\ result[1].eu_document_id = <<"d","i","r","e","c","t","i","v","e",":","1","9","9","5","/","4","6">>
    /\ result[1].full_citation = <<"D","i","r","e","c","t","i","v","e"," ","9","5","/","4","6","/","C","E">>


(***************************************************************************)
(* inferRegulationYearAndNumber on its own.                                *)
(***************************************************************************)
\* the tokens (\d{1,4}) and (\d{2,4}) of a regulation match, and the
\* communities normalizeCommunity returns
FirstTokens == {<<"0">>, <<"5">>, <<"4","5">>, <<"5","7">>, <<"6","7","9">>, <<"1","9","5","6">>, <<"1","9","5","7">>, <<"2","0","1","6">>, <<"2","1","0","1">>}

SecondTokens == {<<"0","0">>, <<"0","5">>, <<"5","8">>, <<"6","7","9">>, <<"0","0","0","0">>, <<"1","9","9","9">>, <<"2","0","1","6">>, <<"2","1","0","1">>}

CommunityValues == {<<"E","U">>, <<"E","G">>, <<"E","E","G">>, <<"E","u","r","a","t","o","m">>, <<"C","E","E">>, <<"C","E">>}

InferInit ==
    /\ pc = "tokens"
    /\ parsed \in [community : CommunityValues, first : FirstTokens, second : SecondTokens]
    /\ citation = Idle /\ result = Idle /\ formatted = Idle /\ db = Idle
    /\ provisions = Idle /\ dedup = Idle /\ dedup2 = Idle
    /\ IngestIdle

\* inferRegulationYearAndNumber(community, match[2], match[3])
Infer ==
    /\ pc = "tokens"
    /\ result' = inferRegulationYearAndNumber(parsed.community, parsed.first, parsed.second)
    /\ pc' = "inferred"
    /\ UNCHANGED <<citation, parsed, formatted, db, provisions, dedup, dedup2, ingestVars, seedFiles>>

NextInfer == Infer

SpecInfer == InferInit /\ [][NextInfer]_vars

\* a token parses as a valid year
ValidYear(token) == IsSome(parseEuYear(token))

\* the community is one of the legacy communities
Legacy(community) == community \in {<<"C","E">>, <<"C","E","E">>, <<"E","G">>, <<"E","E","G">>, <<"E","u","r","a","t","o","m">>}

\* the year and number the rule of the claim gives the tokens: None when the
\* match is dropped
Disambiguated(community, first, second) ==
    IF ValidYear(first) /\ ValidYear(second)
    THEN IF Legacy(community)
         THEN Some([year |-> Val(parseEuYear(second)), number |-> ParseInt(first)])
         ELSE Some([year |-> Val(parseEuYear(first)), number |-> ParseInt(second)])
    ELSE IF ValidYear(first) THEN Some([year |-> Val(parseEuYear(first)), number |-> ParseInt(second)])
    ELSE IF ValidYear(second) THEN Some([year |-> Val(parseEuYear(second)), number |-> ParseInt(first)])
    ELSE None

\* C22 as stated: the token that is the only valid year is the year; of two
\* valid years the legacy communities take the second and EU the first; with
\* no valid year the match is dropped.
C22_AsStated ==
    pc = "inferred" => result = Disambiguated(parsed.community, parsed.first, parsed.second)

\* C22 (corrected): the rule holds for tokens that both stand for a
\* positive number; a match with a token that stands for 0 is dropped.
C22_Disambiguation ==
    pc = "inferred" =>
        result = IF ParseInt(parsed.first) = 0 \/ ParseInt(parsed.second) = 0 THEN None
                 ELSE Disambiguated(parsed.community, parsed.first, parsed.second)

\* C22 witness: two valid years under a legacy community, the second taken
\* as the year
C22_Witness ==
    /\ pc = "inferred"
    /\ parsed.community = <<"C","E">>
    /\ parsed.first = <<"1","9","5","7">> /\ parsed.second = <<"2","0","1","6">>
    /\ result = Some([year |-> 2016, number |-> 1957])


(***************************************************************************)
(* From a type, a year, a number and a community to a citation and back.   *)
(***************************************************************************)
\* the citation of a document in the form the extractor recognises: a
\* directive as 'directive <year>/<number>/<community>', a regulation with
\* <year>/<number> after (UE) or (EU) and <number>/<year> after the others
CitationOf(v) ==
    IF v.type = <<"d","i","r","e","c","t","i","v","e">>
    THEN <<"d","i","r","e","c","t","i","v","e"," ">> \o NumToStr(v.year) \o <<"/">> \o NumToStr(v.number) \o <<"/">> \o v.community
    ELSE IF normalizeCommunity(v.community) = <<"E","U">>
    THEN <<"r","è","g","l","e","m","e","n","t"," ","(">> \o v.community \o <<")"," ">> \o NumToStr(v.year) \o <<"/">> \o NumToStr(v.number)
    ELSE <<"r","è","g","l","e","m","e","n","t"," ","(">> \o v.community \o <<")"," ","n","°"," ">> \o NumToStr(v.number) \o <<"/">> \o NumToStr(v.year)

\* the documents cited
CitedYears == {1957, 1999, 2016, 2100}

CitedNumbers == {1, 9, 10, 57, 680, 1999, 9999}

CitedInit ==
    /\ pc = "text"
    /\ parsed \in [type : {<<"d","i","r","e","c","t","i","v","e">>, <<"r","e","g","u","l","a","t","i","o","n">>}, year : CitedYears, number : CitedNumbers,
                   community : {Communities[k] : k \in 1..Len(Communities)}]
    /\ citation = CitationOf(parsed)
    /\ result = Idle /\ formatted = Idle /\ db = Idle
    /\ provisions = Idle /\ dedup = Idle /\ dedup2 = Idle
    /\ IngestIdle

SpecCited == CitedInit /\ [][NextExtract]_vars

\* C23: the citation built from a type, a year, a number and a community
\* gives exactly one reference, whose id is '<type>:<year>/<number>'.
C23_RoundTrip ==
    (pc = "extracted" /\ parsed # Idle) =>
        /\ Len(result) = 1
        /\ result[1].eu_document_id =
              parsed.type \o <<":">> \o NumToStr(parsed.year) \o <<"/">> \o NumToStr(parsed.number)

(***************************************************************************)
(* The Akoma Ntoso parser (src/scripts/lib/parser.ts)                      *)
(***************************************************************************)
(* A value of the parsed XML tree is [t, k, s, n, c]: t its type, s the    *)
(* characters of a string, n a number, c the elements of an array or the   *)
(* values of an object in the order Object.entries gives them, each with   *)
(* its key in k; Undefined is what a missing key reads as.                 *)
(***************************************************************************)
Str(s) == [t |-> "string", k |-> <<>>, s |-> s, n |-> 0, c |-> <<>>]
Num(n) == [t |-> "number", k |-> <<>>, s |-> <<>>, n |-> n, c |-> <<>>]
Arr(list) == [t |-> "array", k |-> <<>>, s |-> <<>>, n |-> 0, c |-> list]
Obj(entries) == [t |-> "object", k |-> <<>>, s |-> <<>>, n |-> 0, c |-> entries]
Entry(key, value) == [value EXCEPT !.k = key]
Undefined == [t |-> "undefined", k |-> <<>>, s |-> <<>>, n |-> 0, c |-> <<>>]

\* key in obj, and obj[key]
HasKey(obj, key) == \E j \in 1..Len(obj.c) : obj.c[j].k = key
Get(obj, key) ==
    IF HasKey(obj, key)
    THEN obj.c[CHOOSE j \in 1..Len(obj.c) : obj.c[j].k = key]
    ELSE Undefined

\* the truth value of a tree value in a condition
TruthyNode(node) ==
    IF node.t = "string" THEN node.s # <<>>
    ELSE IF node.t = "number" THEN node.n # 0
    ELSE node.t \in {"array", "object"}

\* a set of inline names that holds none
INLINE_ELEMENTS_Empty == {}

INLINE_ELEMENTS ==
    {<<"s","u","p">>, <<"s","u","b">>, <<"b">>, <<"i">>, <<"e","m">>, <<"s","t","r","o","n","g">>, <<"s","p","a","n">>}

\* parts.filter(Boolean).join(sep)
JoinTruthy(parts, sep) == Join(SelectSeq(parts, LAMBDA p : p # <<>>), sep)

\* the inline branch of extractText: the text is glued to the last part
Glue(parts, inlineText) ==
    IF inlineText = <<>> THEN parts
    ELSE IF Len(parts) > 0
    THEN [parts EXCEPT ![Len(parts)] = @ \o inlineText]
    ELSE <<inlineText>>

RECURSIVE extractText(_, _)
\* node.map(n => extractText(n, noSpace)), from element k on
RECURSIVE TextsOf(_, _, _)
TextsOf(list, k, noSpace) ==
    IF k > Len(list) THEN <<>>
    ELSE <<extractText(list[k], noSpace)>> \o TextsOf(list, k + 1, noSpace)

\* for (const [key, value] of Object.entries(obj)) of extractText, from entry k on
RECURSIVE EntryParts(_, _, _, _)
EntryParts(entries, k, parts, noSpace) ==
    IF k > Len(entries) THEN parts
    ELSE IF entries[k].k = <<"#","t","e","x","t">> \/ LitAt(entries[k].k, 1, <<"@","_">>, FALSE)
    THEN EntryParts(entries, k + 1, parts, noSpace)
    ELSE IF entries[k].k \in INLINE_ELEMENTS
    THEN EntryParts(entries, k + 1, Glue(parts, extractText(entries[k], TRUE)), noSpace)
    ELSE EntryParts(entries, k + 1, Append(parts, extractText(entries[k], noSpace)), noSpace)

extractText(node, noSpace) ==
    IF node.t = "string" THEN node.s
    ELSE IF node.t = "number" THEN NumToStr(node.n)
    ELSE IF node.t = "array"
    THEN JoinTruthy(TextsOf(node.c, 1, noSpace), IF noSpace THEN <<>> ELSE <<" ">>)
    ELSE IF node.t = "object"
    THEN JoinTruthy(EntryParts(node.c, 1,
                               (IF HasKey(node, <<"#","t","e","x","t">>)
                                THEN <<extractText(Get(node, <<"#","t","e","x","t">>), noSpace)>>
                                ELSE <<>>),
                               noSpace),
                    IF noSpace THEN <<>> ELSE <<" ">>)
    ELSE <<>>

\* s.replace(/\s+([.,;:!?])/g, '$1') and s.replace(/\s+\)/g, ')'): the runs of
\* white space that a character of the class follows are removed
RECURSIVE DropSpacesBefore(_, _)
DropSpacesBefore(s, class) ==
    IF Len(s) = 0 THEN <<>>
    ELSE IF IsSpace(s[1])
    THEN (IF 1 + SpaceRun(s, 1) <= Len(s) /\ s[1 + SpaceRun(s, 1)] \in class
          THEN DropSpacesBefore(Drop(s, 1 + SpaceRun(s, 1)), class)
          ELSE SubSeq(s, 1, SpaceRun(s, 1)) \o DropSpacesBefore(Drop(s, 1 + SpaceRun(s, 1)), class))
    ELSE <<s[1]>> \o DropSpacesBefore(Tail(s), class)

\* s.replace(/\(\s+/g, '(')
RECURSIVE DropSpacesAfterParen(_)
DropSpacesAfterParen(s) ==
    IF Len(s) = 0 THEN <<>>
    ELSE IF s[1] = "(" THEN <<"(">> \o DropSpacesAfterParen(Drop(s, 2 + SpaceRun(s, 2)))
    ELSE <<s[1]>> \o DropSpacesAfterParen(Tail(s))

cleanText(text) ==
    Trim(DropSpacesBefore(DropSpacesAfterParen(
            DropSpacesBefore(CollapseSpaces(text), {".", ",", ";", ":", "!", "?"})),
         {")"}))

\* s.replace(/^Art\.\s*/i, '')
StripArtDot(s) ==
    IF LitAt(s, 1, <<"A","r","t",".">>, TRUE) THEN Drop(s, 5 + SpaceRun(s, 5)) ELSE s

\* s.replace(/\.\s*$/, ''): a period that only white space follows goes, with it
StripFinalPeriod(s) ==
    IF \E i \in 1..Len(s) : s[i] = "." /\ \A j \in (i + 1)..Len(s) : IsSpace(s[j])
    THEN SubSeq(s, 1, (CHOOSE i \in 1..Len(s) :
                          s[i] = "." /\ \A j \in (i + 1)..Len(s) : IsSpace(s[j])) - 1)
    ELSE s

\* s.replace(/(\d+)\.(\w+)$/, '$1$2'): the period between a digit and a final
\* run of word characters goes
JoinOrdinal(s) ==
    IF \E i \in 2..(Len(s) - 1) :
          s[i] = "." /\ IsDigit(s[i - 1]) /\ \A j \in (i + 1)..Len(s) : IsWordChar(s[j])
    THEN LET i == CHOOSE i \in 2..(Len(s) - 1) :
                     s[i] = "." /\ IsDigit(s[i - 1]) /\ \A j \in (i + 1)..Len(s) : IsWordChar(s[j])
         IN SubSeq(s, 1, i - 1) \o Drop(s, i + 1)
    ELSE s

extractArticleNum(numNode) ==
    RemoveSpaces(JoinOrdinal(StripFinalPeriod(Trim(StripArtDot(extractText(numNode, FALSE))))))

\* s.replace(/^art\.?\s*/i, '')
StripArtOptionalDot(s) ==
    IF ~LitAt(s, 1, sArt, TRUE) THEN s
    ELSE IF Len(s) >= 4 /\ s[4] = "." THEN Drop(s, 5 + SpaceRun(s, 5))
    ELSE Drop(s, 4 + SpaceRun(s, 4))

\* s.replace(/\.$/g, '')
StripLastPeriod(s) ==
    IF Len(s) > 0 /\ s[Len(s)] = "." THEN SubSeq(s, 1, Len(s) - 1) ELSE s

\* normalized.match(/^(\d+)er$/)
IsFirstOrdinal(s) ==
    Len(s) >= 3 /\ EndsWith(s, <<"e","r">>) /\ \A i \in 1..(Len(s) - 2) : IsDigit(s[i])

\* const erMatch = normalized.match(/^(\d+)er$/); erMatch ? erMatch[1] : normalized
WithoutEr(normalized) ==
    IF IsFirstOrdinal(normalized) THEN SubSeq(normalized, 1, Len(normalized) - 2) ELSE normalized

normalizeArticleRef(num) ==
    sArt \o WithoutEr(ToLower(StripLastPeriod(StripArtOptionalDot(RemoveSpaces(num)))))

\* for (const n of arr) { const text = cleanText(extractText(n)); if (text) contentParts.push(text) }
\* over a value that is an array or a single node
Blocks(nodes) ==
    SelectSeq([k \in 1..Len(IF nodes.t = "array" THEN nodes.c ELSE <<nodes>>) |->
                  cleanText(extractText((IF nodes.t = "array" THEN nodes.c ELSE <<nodes>>)[k], FALSE))],
              LAMBDA b : b # <<>>)

\* contentParts of processArticle
ContentParts(article) ==
    (IF TruthyNode(Get(article, <<"a","l","i","n","e","a">>)) THEN Blocks(Get(article, <<"a","l","i","n","e","a">>)) ELSE <<>>)
    \o (IF TruthyNode(Get(article, <<"p","a","r","a","g","r","a","p","h">>)) THEN Blocks(Get(article, <<"p","a","r","a","g","r","a","p","h">>)) ELSE <<>>)
    \o (IF /\ TruthyNode(Get(article, <<"c","o","n","t","e","n","t">>))
           /\ ~TruthyNode(Get(article, <<"a","l","i","n","e","a">>))
           /\ ~TruthyNode(Get(article, <<"p","a","r","a","g","r","a","p","h">>))
        THEN Blocks(Get(article, <<"c","o","n","t","e","n","t">>)) ELSE <<>>)
    \o (IF /\ TruthyNode(Get(article, <<"p">>))
           /\ ~TruthyNode(Get(article, <<"a","l","i","n","e","a">>))
           /\ ~TruthyNode(Get(article, <<"p","a","r","a","g","r","a","p","h">>))
           /\ ~TruthyNode(Get(article, <<"c","o","n","t","e","n","t">>))
        THEN Blocks(Get(article, <<"p">>)) ELSE <<>>)

\* processArticle(article, chapterRef): the provisions it pushes
processArticle(article, chapterRef) ==
    IF ~TruthyNode(Get(article, <<"n","u","m">>)) THEN <<>>
    ELSE IF extractArticleNum(Get(article, <<"n","u","m">>)) = <<>> THEN <<>>
    ELSE IF Join(ContentParts(article), <<"\n","\n">>) = <<>> THEN <<>>
    ELSE <<[provision_ref |-> normalizeArticleRef(extractArticleNum(Get(article, <<"n","u","m">>))),
            section |-> (IF IsSome(chapterRef) THEN Val(chapterRef) ELSE <<"1">>),
            title |-> <<"A","r","t","i","c","l","e"," ">> \o extractArticleNum(Get(article, <<"n","u","m">>)),
            content |-> Join(ContentParts(article), <<"\n","\n">>)]>>

(***************************************************************************)
(* processArticle on its own: parsed is the article and the chapter it is  *)
(* in, provisions what it pushes, result the text read from the num node.  *)
(***************************************************************************)
\* the num child: isArray makes it an array; one node with text and one child,
\* or a plain string
NumNodes ==
    {Arr(<<Obj(<<Entry(<<"#","t","e","x","t">>, Str(t)), Entry(k, Str(s))>>)>>) :
        t \in {<<"A","r","t","."," ","1">>, <<"A","r","t","."," ","2",".">>, <<"A","r","t","."," ","1","0">>},
        k \in {<<"s","u","p">>, <<"b">>, <<"p">>, <<"r","e","f">>},
        s \in {<<"e","r">>, <<"b","i","s">>}}
    \cup {Arr(<<Str(<<"A","r","t","."," ","3",".">>)>>), Arr(<<Str(<<"A","r","t",".">>)>>)}

AlineaNodes ==
    {Arr(<<Str(<<"A"," ","o","n","e"," ",".">>)>>),
     Arr(<<Obj(<<Entry(<<"@","_","i","d">>, Str(<<"a","l","1">>)),
                 Entry(<<"c","o","n","t","e","n","t">>, Arr(<<Obj(<<Entry(<<"p">>, Arr(<<Str(<<"A"," ","("," ","t","w","o"," ",")">>)>>))>>)>>))>>),
           Str(<<"A"," ","t","h","r","e","e">>)>>)}
ParagraphNodes == {Arr(<<Str(<<"P"," ","o","n","e">>)>>)}
ContentNodes == {Arr(<<Str(<<"C"," ","o","n","e">>)>>), Arr(<<Str(<<" "," ">>)>>)}
PNodes == {Arr(<<Obj(<<Entry(<<"#","t","e","x","t">>, Str(<<"Q"," ","o","n","e">>)), Entry(<<"i">>, Str(<<"b","i","s">>))>>)>>)}

\* the entries of one child name: none when the child is absent
Child(key, nodes) == {<<>>} \cup {<<Entry(key, n)>> : n \in nodes}

Articles ==
    {Obj(n \o a \o g \o c \o p) :
        n \in Child(<<"n","u","m">>, NumNodes), a \in Child(<<"a","l","i","n","e","a">>, AlineaNodes),
        g \in Child(<<"p","a","r","a","g","r","a","p","h">>, ParagraphNodes), c \in Child(<<"c","o","n","t","e","n","t">>, ContentNodes),
        p \in Child(<<"p">>, PNodes)}

ArticleInit ==
    /\ pc = "article"
    /\ parsed \in [article : Articles, chapterRef : {None, Some(<<"2">>)}]
    /\ citation = Idle /\ result = Idle /\ formatted = Idle /\ db = Idle
    /\ provisions = Idle /\ dedup = Idle /\ dedup2 = Idle
    /\ IngestIdle

\* processArticle(article, chapterRef); rawText of extractArticleNum is kept in result
ProcessArticle ==
    /\ pc = "article"
    /\ provisions' = processArticle(parsed.article, parsed.chapterRef)
    /\ result' = extractText(Get(parsed.article, <<"n","u","m">>), FALSE)
    /\ pc' = "processed"
    /\ UNCHANGED <<citation, parsed, formatted, db, dedup, dedup2, ingestVars, seedFiles>>

NextArticle == ProcessArticle
SpecArticle == ArticleInit /\ [][NextArticle]_vars

\* the article has the child, and the blocks the child gives
Has(key) == TruthyNode(Get(parsed.article, key))
BlocksOf(key) == IF Has(key) THEN Blocks(Get(parsed.article, key)) ELSE <<>>

\* the blocks of the first category that is present
FirstCategory ==
    IF Has(<<"a","l","i","n","e","a">>) THEN BlocksOf(<<"a","l","i","n","e","a">>)
    ELSE IF Has(<<"p","a","r","a","g","r","a","p","h">>) THEN BlocksOf(<<"p","a","r","a","g","r","a","p","h">>)
    ELSE IF Has(<<"c","o","n","t","e","n","t">>) THEN BlocksOf(<<"c","o","n","t","e","n","t">>)
    ELSE BlocksOf(<<"p">>)

\* C24: the content of the provision pushed for an article is made of the
\* blocks of one category only, the first present of alinea, paragraph,
\* content and p.
C24_StrictPriority ==
    (pc = "processed" /\ Len(provisions) = 1) =>
        provisions[1].content = Join(FirstCategory, <<"\n","\n">>)

\* what processArticle does: alinea blocks and paragraph blocks are both
\* taken, in that order; content only without them, p only without the three
C24_AsCoded ==
    (pc = "processed" /\ Len(provisions) = 1) =>
        provisions[1].content =
            Join(IF Has(<<"a","l","i","n","e","a">>) \/ Has(<<"p","a","r","a","g","r","a","p","h">>)
                 THEN BlocksOf(<<"a","l","i","n","e","a">>) \o BlocksOf(<<"p","a","r","a","g","r","a","p","h">>)
                 ELSE FirstCategory, <<"\n","\n">>)

C24_Both ==
    /\ pc = "processed" /\ Len(provisions) = 1
    /\ Has(<<"a","l","i","n","e","a">>) /\ Has(<<"p","a","r","a","g","r","a","p","h">>)
    /\ provisions[1].content # Join(BlocksOf(<<"a","l","i","n","e","a">>), <<"\n","\n">>)

\* the num child of the article is one node map with '#text' and one child
NumNode == Get(parsed.article, <<"n","u","m">>).c[1]
NumIsMap == HasKey(parsed.article, <<"n","u","m">>) /\ NumNode.t = "object"

\* C25: for a node map with '#text' t and one child of text s, extractText
\* returns t immediately followed by s when the child is sup, sub, b, i, em,
\* strong or span, and t, one space, s when it is any other element; the num
\* node {"#text": "Art. 1", "sup": "er"} reads as "Art. 1er" and the
\* provision pushed for its article has provision_ref "art1".
C25_Gluing ==
    (pc = "processed" /\ NumIsMap) =>
        /\ result = (IF NumNode.c[2].k \in {<<"s","u","p">>, <<"s","u","b">>, <<"b">>, <<"i">>, <<"e","m">>, <<"s","t","r","o","n","g">>, <<"s","p","a","n">>}
                     THEN NumNode.c[1].s \o NumNode.c[2].s
                     ELSE NumNode.c[1].s \o <<" ">> \o NumNode.c[2].s)
        /\ (NumNode.c[1].s = <<"A","r","t","."," ","1">> /\ NumNode.c[2].k = <<"s","u","p">> /\ NumNode.c[2].s = <<"e","r">>) =>
              /\ result = <<"A","r","t","."," ","1","e","r">>
              /\ \A k \in 1..Len(provisions) : provisions[k].provision_ref = <<"a","r","t","1">>

C25_Witness ==
    /\ pc = "processed" /\ NumIsMap
    /\ NumNode.c[1].s = <<"A","r","t","."," ","1">> /\ NumNode.c[2].k = <<"s","u","p">> /\ NumNode.c[2].s = <<"e","r">>
    /\ result = <<"A","r","t","."," ","1","e","r">>
    /\ Len(provisions) = 1 /\ provisions[1].provision_ref = <<"a","r","t","1">>
    /\ provisions[1].title = <<"A","r","t","i","c","l","e"," ","1","e","r">>

(***************************************************************************)
(* The tools get_provision and get_provision_eu_basis behind the CallTool  *)
(* handler (src/src/tools/registry.ts).  parsed is the request with the    *)
(* answer resolveExistingStatuteId gives for its document_id, result the   *)
(* response of the handler.                                                *)
(***************************************************************************)
MAX_PROVISIONS == 50

\* legal_provisions rows with their rowid and eu_references rows
ToolProvisionRows ==
    {[id |-> 1, document_id |-> DocA.id, provision_ref |-> <<"a","r","t","1">>, section |-> <<"1">>, content |-> <<"u","n">>],
     [id |-> 2, document_id |-> DocA.id, provision_ref |-> <<"a","r","t","3">>, section |-> <<"2">>, content |-> <<"t","r","o","i","s">>],
     [id |-> 3, document_id |-> DocB.id, provision_ref |-> <<"a","r","t","1">>, section |-> <<"1">>, content |-> <<"b">>]}
ToolEuRows ==
    {[provision_id |-> Some(1), document_id |-> DocA.id, eu_document_id |-> <<"d","i","r","e","c","t","i","v","e",":","2","0","1","6","/","6","8","0">>],
     [provision_id |-> None, document_id |-> DocA.id, eu_document_id |-> <<"r","e","g","u","l","a","t","i","o","n",":","2","0","1","6","/","6","7","9">>]}

\* the stores the foreign keys allow
ToolStores ==
    {store \in [documents : SUBSET {DocA, DocB}, provisions : SUBSET ToolProvisionRows,
                eu_references : SUBSET ToolEuRows] :
        /\ \A p \in store.provisions : \E d \in store.documents : d.id = p.document_id
        /\ \A e \in store.eu_references :
              /\ \E d \in store.documents : d.id = e.document_id
              /\ IsSome(e.provision_id) => \E p \in store.provisions : p.id = Val(e.provision_id)}

\* resolveExistingStatuteId(db, id) is not part of the sources: it answers
\* an id of a stored document or null, and an id that is stored as it is
\* given resolves to itself
Resolutions(store, id) ==
    IF \E d \in store.documents : Some(d.id) = id THEN {id}
    ELSE {None} \cup {Some(d.id) : d \in store.documents}

ToolNames == {"get_provision", "get_provision_eu_basis", "no_such_tool"}
ToolArgs ==
    [document_id : {None, Some(<<>>), Some(DocA.id), Some(DocB.id), Some(<<"d","Z">>)},
     provision_ref : {None, Some(<<" ">>), Some(<<"a","r","t","1">>), Some(<<"2">>), Some(<<"a","r","t","9">>)},
     section : {None, Some(<<"1">>)}]

\* what a tool gives back: a value, or an Error thrown
Returned(kind, value) == [threw |-> FALSE, message |-> <<>>, kind |-> kind, results |-> Some(value)]
ReturnedNull == [threw |-> FALSE, message |-> <<>>, kind |-> "null", results |-> None]
Threw(message) == [threw |-> TRUE, message |-> message, kind |-> "error", results |-> None]

\* WHERE document_id = ? AND (provision_ref = ? OR section = ?)
ProvisionRowsFor(store, id, ref) ==
    {p \in store.provisions : p.document_id = id /\ (p.provision_ref = ref \/ p.section = ref)}

\* ORDER BY lp.id LIMIT n
FirstById(rows, n) == {r \in rows : Cardinality({q \in rows : q.id < r.id}) < n}

\* input.provision_ref ?? input.section
ProvisionRefOf(input) == IF IsSome(input.provision_ref) THEN input.provision_ref ELSE input.section

\* input.document_id, or the resolved id when there is one
ResolvedDocumentId(input, resolved) == IF IsSome(resolved) THEN Val(resolved) ELSE Val(input.document_id)

\* getProvision: the outcomes it can have; .get() gives one of the matching rows
getProvision(store, input, resolved) ==
    IF ~Truthy(input.document_id) THEN {Threw(<<"d","o","c","u","m","e","n","t","_","i","d"," ","i","s"," ","r","e","q","u","i","r","e","d">>)}
    ELSE IF ~Truthy(ProvisionRefOf(input))
    THEN {Returned("rows",
              [rows |-> FirstById({p \in store.provisions :
                                      p.document_id = ResolvedDocumentId(input, resolved)},
                                  MAX_PROVISIONS),
               truncated |-> Cardinality({p \in store.provisions :
                                            p.document_id = ResolvedDocumentId(input, resolved)})
                                > MAX_PROVISIONS])}
    ELSE IF ProvisionRowsFor(store, ResolvedDocumentId(input, resolved), Val(ProvisionRefOf(input))) = {}
    THEN {ReturnedNull}
    ELSE {Returned("row", p) :
            p \in ProvisionRowsFor(store, ResolvedDocumentId(input, resolved), Val(ProvisionRefOf(input)))}

\* the rows of provisionSql, or of documentSql when there are none
EuRowsFor(store, provision, resolvedId) ==
    IF {e \in store.eu_references : e.provision_id = Some(provision.id)} # {}
    THEN {e \in store.eu_references : e.provision_id = Some(provision.id)}
    ELSE {e \in store.eu_references : e.document_id = resolvedId}

\* getProvisionEUBasis
getProvisionEUBasis(store, input, resolved) ==
    IF ~Truthy(input.document_id) THEN {Threw(<<"d","o","c","u","m","e","n","t","_","i","d"," ","i","s"," ","r","e","q","u","i","r","e","d">>)}
    ELSE IF ~IsSome(input.provision_ref) \/ Trim(Val(input.provision_ref)) = <<>>
    THEN {Threw(<<"p","r","o","v","i","s","i","o","n","_","r","e","f"," ","i","s"," ","r","e","q","u","i","r","e","d">>)}
    ELSE IF ~IsSome(resolved)
    THEN {Threw(<<"D","o","c","u","m","e","n","t"," ","\"">> \o Val(input.document_id) \o <<"\""," ","n","o","t"," ","f","o","u","n","d"," ","i","n"," ","d","a","t","a","b","a","s","e">>)}
    ELSE IF ProvisionRowsFor(store, Val(resolved), Val(input.provision_ref)) = {}
    THEN {Threw(<<"P","r","o","v","i","s","i","o","n"," ">> \o Val(input.provision_ref) \o <<" ","n","o","t"," ","f","o","u","n","d"," ","i","n"," ">> \o Val(input.document_id))}
    ELSE {Returned("basis",
              [document_id |-> Val(resolved), provision_ref |-> Val(input.provision_ref),
               provision_content |-> p.content,
               eu_references |-> {e.eu_document_id : e \in EuRowsFor(store, p, Val(resolved))}]) :
            p \in ProvisionRowsFor(store, Val(resolved), Val(input.provision_ref))}

\* the response of the CallTool handler for what the tool gave back
Response(outcome) ==
    IF outcome.threw
    THEN [isError |-> TRUE, text |-> <<"E","r","r","o","r",":"," ">> \o outcome.message, kind |-> "error", results |-> None]
    ELSE [isError |-> FALSE, text |-> <<>>, kind |-> outcome.kind, results |-> outcome.results]

ToolsInit ==
    /\ pc = "request"
    /\ db \in ToolStores
    /\ \E name \in ToolNames, args \in ToolArgs :
          \E r \in Resolutions(db, args.document_id) :
              parsed = [name |-> name, args |-> args, resolved |-> r]
    /\ citation = Idle /\ result = Idle /\ formatted = Idle
    /\ provisions = Idle /\ dedup = Idle /\ dedup2 = Idle
    /\ IngestIdle

\* server.setRequestHandler(CallToolRequestSchema, ..)
CallTool ==
    /\ pc = "request"
    /\ \E outcome \in (IF parsed.name = "get_provision"
                       THEN getProvision(db, parsed.args, parsed.resolved)
                       ELSE IF parsed.name = "get_provision_eu_basis"
                       THEN getProvisionEUBasis(db, parsed.args, parsed.resolved)
                       ELSE {Threw(<<"U","n","k","n","o","w","n"," ","t","o","o","l"," ","\"","n","o","_","s","u","c","h","_","t","o","o","l","\"",".">>)}) :
          result' = Response(outcome)
    /\ pc' = "responded"
    /\ UNCHANGED <<citation, parsed, formatted, db, provisions, dedup, dedup2, ingestVars, seedFiles>>

NextTools == CallTool
SpecTools == ToolsInit /\ [][NextTools]_vars

\* no required field of the call is missing
RequiredPresent ==
    /\ Truthy(parsed.args.document_id)
    /\ parsed.name = "get_provision_eu_basis" =>
          IsSome(parsed.args.provision_ref) /\ Trim(Val(parsed.args.provision_ref)) # <<>>

\* the provision the call names, if it names one
NamedRef == IF parsed.name = "get_provision" THEN ProvisionRefOf(parsed.args) ELSE parsed.args.provision_ref

\* the document or the provision the call names is not in the store
NamesAbsent ==
    /\ RequiredPresent
    /\ \/ ~IsSome(parsed.resolved) /\ ~\E d \in db.documents : Some(d.id) = parsed.args.document_id
       \/ /\ Truthy(NamedRef)
          /\ ProvisionRowsFor(db, ResolvedDocumentId(parsed.args, parsed.resolved), Val(NamedRef)) = {}

\* C26: a call of get_provision or get_provision_eu_basis that names a
\* document or a provision absent from the store is answered with a result
\* that is not an error; only a call with a required field missing is
\* answered with an error.
C26_NotFoundIsNoError ==
    (pc = "responded" /\ parsed.name \in {"get_provision", "get_provision_eu_basis"}) =>
        (result.isError <=> ~RequiredPresent)

\* get_provision alone: absent is answered with results null, and an error
\* only when document_id is missing
C26_GetProvision ==
    (pc = "responded" /\ parsed.name = "get_provision") =>
        /\ result.isError <=> ~Truthy(parsed.args.document_id)
        /\ NamesAbsent => result.kind \in {"null", "rows"}

\* get_provision_eu_basis answers an absent document or provision with an error
C26_BasisThrows ==
    /\ pc = "responded" /\ parsed.name = "get_provision_eu_basis"
    /\ NamesAbsent /\ result.isError

(***************************************************************************)
(* The counters of the fetch phase.                                        *)
(***************************************************************************)
\* the seed files the run has written: those that are not the seed an
\* earlier run left
ArtifactsWritten == {id \in DOMAIN files.seeds : files.seeds[id] # OldSeed(id)}

\* every entry is reached once and in order, with at most two XML requests
\* and no request beyond those; at the end the three counters add up to
\* the number of entries
C27_Counts ==
    Fetching =>
        /\ Len(phase2.log) = phase2.i
        /\ \A k \in 1..Len(phase2.log) :
              phase2.log[k].entry = k /\ Len(phase2.log[k].tried) <= 2
        /\ XmlUrlsSent(net.requests, 1) = UrlsTried(phase2.log, 1)
        /\ phase2.processed + phase2.skipped + phase2.failed = phase2.i
        /\ pc = "done" => phase2.i = Len(phase2.toProcess)

\* an iteration over entry writes the seed artifact of the entry, and no
\* other file, exactly when it counts the entry as processed
WritesWhenProcessed(entry) ==
    IF phase2'.processed = phase2.processed + 1
    THEN /\ files'.seeds = WriteFile(files.seeds, generateSeedId(entry), files'.seeds[generateSeedId(entry)])
         /\ files'.seeds[generateSeedId(entry)].url = entry.uri
    ELSE phase2'.processed = phase2.processed /\ files' = files

C27_Artifacts ==
    (Fetching /\ pc = "done") => Cardinality(ArtifactsWritten) = phase2.processed

MaxCalls == 3
MaxClock == 2200
MaxLate == 100

GateInit ==
    /\ pc = "gate"
    /\ net = [clock |-> 1000, lastRequestTime |-> 0,
              calls |-> [k \in 1..MaxCalls |-> [state |-> "new", due |-> 0, at |-> 0]]]
    /\ flags = Idle /\ endpoint = Idle /\ files = Idle /\ disc = Idle /\ phase2 = Idle
    /\ seedFiles = Idle
    /\ citation = Idle /\ parsed = Idle /\ formatted = Idle /\ db = Idle
    /\ result = Idle /\ provisions = Idle /\ dedup = Idle /\ dedup2 = Idle

\* rateLimit() up to its await: now and elapsed are read; without a wait
\* lastRequestTime is set and the invocation returns at once
Invoke(k) ==
    /\ pc = "gate"
    /\ net.calls[k].state = "new"
    /\ \A j \in 1..(k - 1) : net.calls[j].state # "new"
    /\ net' = IF net.clock - net.lastRequestTime < MIN_DELAY_MS
              THEN [net EXCEPT !.calls[k] =
                       [state |-> "waiting",
                        due |-> net.clock + (MIN_DELAY_MS - (net.clock - net.lastRequestTime)),
                        at |-> 0]]
              ELSE [net EXCEPT !.lastRequestTime = net.clock,
                               !.calls[k] = [state |-> "returned", due |-> 0, at |-> net.clock]]
    /\ UNCHANGED <<engineVars, db, seedFiles, flags, endpoint, files, disc, phase2, pc>>

\* the timer of a waiting invocation fires: lastRequestTime = Date.now(),
\* and the invocation returns
Wake(k) ==
    /\ pc = "gate"
    /\ net.calls[k].state = "waiting"
    /\ net.clock >= net.calls[k].due
    /\ net' = [net EXCEPT !.lastRequestTime = net.clock,
                          !.calls[k] = [state |-> "returned", due |-> 0, at |-> net.clock]]
    /\ UNCHANGED <<engineVars, db, seedFiles, flags, endpoint, files, disc, phase2, pc>>

\* time passes; a timer fires no later than MaxLate after it is due
Tick(d) ==
    /\ pc = "gate"
    /\ net.clock + d <= MaxClock
    /\ \A k \in 1..MaxCalls :
          net.calls[k].state = "waiting" => net.clock + d <= net.calls[k].due + MaxLate
    /\ net' = [net EXCEPT !.clock = @ + d]
    /\ UNCHANGED <<engineVars, db, seedFiles, flags, endpoint, files, disc, phase2, pc>>

NextGate ==
    \/ \E k \in 1..MaxCalls : Invoke(k)
    \/ \E k \in 1..MaxCalls : Wake(k)
    \/ \E d \in {100, 300} : Tick(d)

SpecGate == GateInit /\ [][NextGate]_vars

Returned2(j, k) == net.calls[j].state = "returned" /\ net.calls[k].state = "returned"

\* C28: the times at which any two invocations of rateLimit return differ
\* by at least 500 ms, whether or not the invocations overlap.
C28_Spaced ==
    pc = "gate" =>
        \A j, k \in 1..MaxCalls :
            (j < k /\ Returned2(j, k)) =>
                \/ net.calls[k].at - net.calls[j].at >= MIN_DELAY_MS
                \/ net.calls[j].at - net.calls[k].at >= MIN_DELAY_MS

\* two invocations that waited at the same time have returned together
C28_Overlap ==
    /\ pc = "gate"
    /\ \E j, k \in 1..MaxCalls :
          /\ j < k /\ Returned2(j, k)
          /\ net.calls[j].at = net.calls[k].at

(***************************************************************************)
(* parseCitation on what formatCitation returns.                           *)
(***************************************************************************)
\* parseCitation(formatCitation(parsed, style)); the second result is kept in result
Reparse ==
    /\ pc = "formatted"
    /\ result' = parseCitation(formatted.text)
    /\ pc' = "reparsed"
    /\ UNCHANGED <<citation, parsed, formatted, db, provisions, dedup, dedup2, ingestVars, seedFiles>>

NextReparse == Parse \/ Format \/ Reparse
SpecReparse == Init /\ [][NextReparse]_vars

\* C29: for every citation X that parseCitation finds valid, the string
\* formatCitation(parseCitation(X), 'full') is valid again, with the same
\* section, subsection and paragraph.
C29_Reparseable ==
    (pc = "reparsed" /\ parsed.valid /\ formatted.style = "full") =>
        /\ result.valid
        /\ result.section = parsed.section
        /\ result.subsection = parsed.subsection
        /\ result.paragraph = parsed.paragraph

(***************************************************************************)
(* The third lookup of validateCitation.                                   *)
(***************************************************************************)
\* the rows of the title lookup and of the year lookup, when they are made
TitleRows(store, p) == IF Truthy(p.title) THEN DocsByTitle(store, Val(p.title)) ELSE {}
YearRows(store, p) == IF TruthyNum(p.year) THEN DocsByYear(store, Val(p.year)) ELSE {}

\* the document resolution of a validateCitation without the join lookup
ResolveWithoutJoin(store, p) ==
    IF TitleRows(store, p) # {} THEN TitleRows(store, p) ELSE YearRows(store, p)

\* the join lookup is made: no row so far, a section and a year
JoinMade(store, p) ==
    /\ TitleRows(store, p) = {} /\ YearRows(store, p) = {}
    /\ Truthy(p.section) /\ TruthyNum(p.year)

\* C30: whenever the join lookup of validateCitation is made, the year
\* lookup having found no document, it finds none for any candidate, and
\* validateCitation returns what it would return without that lookup.
C30_JoinFindsNothing ==
    (pc = "validated" /\ result.citation.valid) =>
        /\ JoinMade(db, result.citation) =>
              DocsByCandidates(db, Val(result.citation.year),
                               provisionCandidates(result.citation.section), 1) = {}
        /\ ResolveDocs(db, result.citation) = ResolveWithoutJoin(db, result.citation)
        /\ result \in ResultsFor(db, result.citation, ResolveWithoutJoin(db, result.citation))

\* the join lookup was made over a store that holds a provision matching a
\* candidate, in a document of another year
C30_Witness ==
    /\ pc = "validated" /\ result.citation.valid
    /\ JoinMade(db, result.citation)
    /\ \E k \in 1..Len(provisionCandidates(result.citation.section)) :
          DocsByJoinAnyYear(db, Val(result.citation.year),
                            provisionCandidates(result.citation.section)[k]) # {}
    /\ ~result.document_exists

====
